---------------------------- MODULE Spec2Model ----------------------------
(***************************************************************************)
(* Model of the ingestion / deduplication / scoring core of brkTrd:        *)
(*   - RateLimiter.acquire            (services/finviz_client.py,          *)
(*                                     services/sentiment_analyzer.py)     *)
(*   - HeadlineDeduplicator           (services/finviz_client.py)          *)
(*   - ingest_portfolios / ingest_single_portfolio (services/ingestion.py) *)
(*   - analyze_headline_task          (routers/sentiment.py)               *)
(*   - SentimentAnalyzer.analyze_headline (services/sentiment_analyzer.py) *)
(*   - FinvizClient.fetch_portfolio_headlines (services/finviz_client.py)  *)
(*   - SentimentAnalyzer._parse_model_response, _aggregate_sentiments      *)
(*                                     (services/sentiment_analyzer.py)    *)
(* Each component has its own specification over its own variables; the    *)
(* variables of the other components are parked at their idle value.       *)
(***************************************************************************)
EXTENDS Integers, Sequences, FiniteSets, TLC

(***************************************************************************)
(* Bounds of the model.                                                    *)
(***************************************************************************)
NumCallers == 3      \* coroutines calling acquire() on one limiter
RateLimit == 2       \* RateLimiter.rate_limit (a configuration value)
Window == 2          \* RateLimiter.window, in clock ticks
MaxTime == 5         \* the clock stops here
MaxItems == 3        \* headlines in one batch given to deduplicate()
MaxTargets == 2      \* portfolio ids passed to one ingest_portfolios call
MaxBatch == 2        \* headlines the upstream returns for one portfolio
NumRuns == 3         \* analyze_headline_task runs
MaxFanOut == 4       \* portfolio ids of the one fan-out ingest call
MaxModels == 3       \* models passed to one analyze_headline call
MaxVotes == 3        \* results given to one _aggregate_sentiments call
WideItems == 4       \* headlines in one wide batch given to deduplicate()

\* DEFAULT_CONCURRENCY = 3
DEFAULT_CONCURRENCY == 3

VARIABLES
    \* ---- RateLimiter (one resource key) ----
    now,             \* the clock read by datetime.now() / time.time()
    calls,           \* self.calls: recorded call timestamps, oldest first
    gateLock,        \* self.lock: 0 when free, else the caller holding it
    pc,              \* per caller: "idle", "lock", "sleep", "done"
    wake,            \* per caller: the time its asyncio.sleep ends
    depth,           \* per caller: nesting depth of acquire() frames
    completions      \* history: the times at which acquire() calls returned

gateVars == <<now, calls, gateLock, pc, wake, depth, completions>>

VARIABLES
    \* ---- HeadlineDeduplicator.deduplicate (one call) ----
    headlines,       \* the input list; its items are mutated in place
    score,           \* fuzz.ratio of each pair <<i, j>>, i < j, of the input
    dstage,          \* "input", "grouped", "done"
    merged_groups,   \* merged_groups: list of lists of indices
    deduplicated     \* the returned list, as indices into headlines

dedupeVars == <<headlines, score, dstage, merged_groups, deduplicated>>

VARIABLES
    \* ---- ingest_portfolios / ingest_single_portfolio ----
    cm,              \* cache_manager: "none", "noredis" (redis is None), "redis"
    enabled,         \* the INGESTION_V2_ENABLED feature flag
    configured,      \* settings.finviz_portfolio_numbers
    plan,            \* the portfolio_ids of the ingest calls still to be made
    payload,         \* per portfolio: what the upstream returns for it
    ipc,             \* "idle" or "running": the ingest_portfolios call
    targets,         \* target_portfolios of the running call; one task each
    wpc,             \* per task: its position in the pipeline pass
    lock_acquired,   \* per task: the local lock_acquired
    fetched,         \* per task: fetch_portfolio_headlines was invoked
    new_instances,   \* per task: the Headline rows to add
    duplicate_count, \* per task: the local duplicate_count
    outcome,         \* per task: the result dict or the raised exception
    semaphore,       \* asyncio.Semaphore(DEFAULT_CONCURRENCY): free permits
    redisLocks,      \* the portfolios whose lock key exists in redis
    lock_owner,      \* per portfolio: the pass that set the key and still fetches
    cache,           \* the keys present in the redis cache
    cache_failed,    \* history: the cache delete calls that raised
    db,              \* the headlines table
    overall,         \* the local overall of ingest_portfolios
    results          \* history: what each ingest_portfolios call returned

ingestVars == <<cm, enabled, configured, plan, payload, ipc, targets, wpc,
                lock_acquired, fetched, new_instances, duplicate_count,
                outcome, semaphore, redisLocks, lock_owner, cache,
                cache_failed, db, overall, results>>

VARIABLES
    \* ---- analyze_headline_task (scoring runs) ----
    spc,             \* per run: "idle", "analyze", "check", "commit", "end"
    sitem,           \* per run: the headline it scores
    sresult,         \* per run: what analyze_headline returned
    sentiment_aggregates,   \* the sentiment_aggregates table
    sentiment_analyses      \* the sentiment_analyses table

scoreVars == <<spc, sitem, sresult, sentiment_aggregates, sentiment_analyses>>

VARIABLES
    \* ---- SentimentAnalyzer.analyze_headline (one call) ----
    selected_models, \* settings.selected_models: each has a rate limiter
    clients,         \* the providers whose client __aenter__ created
    arg_models,      \* the models argument of the call
    apc,             \* "idle", "running", "returned", "raised"
    models,          \* the local models: one _analyze_with_model task each
    tpc,             \* per task: "start", "call", "valid", "failed"
    acquires,        \* per task: completed acquire() calls on its limiter
    attempts,        \* per task: outbound calls made to its backend
    retried_errors,  \* per task: the kinds of exception that were retried
    analysis         \* what analyze_headline returned or raised

analyzeVars == <<selected_models, clients, arg_models, apc, models, tpc,
                 acquires, attempts, retried_errors, analysis>>

VARIABLES
    \* ---- FinvizClient.fetch_portfolio_headlines (one call) ----
    fpc,             \* "idle", "acquire", "export", "scrape", "returned", "raised"
    fattempt,        \* attempts of fetch_portfolio_headlines started (tenacity)
    scrape_site,     \* the call site of the running _fallback_fetch_scrape
    fetch_log        \* history: acquires, outbound GETs and their failures

fetchVars == <<fpc, fattempt, scrape_site, fetch_log>>

VARIABLES
    \* ---- SentimentAnalyzer._parse_model_response (one call) ----
    response,        \* the fields of the backend's response
    parsed           \* what _parse_model_response returned or raised

parseVars == <<response, parsed>>

VARIABLES
    \* ---- SentimentAnalyzer._aggregate_sentiments (one call) ----
    votes,           \* the results argument
    aggregate        \* what _aggregate_sentiments returned

aggregateVars == <<votes, aggregate>>

VARIABLES
    \* ---- cleanup_expired_records (one call) ----
    kpc,             \* "idle", "select", "delete", "returned"
    utcnow,          \* datetime.now(timezone.utc), in hours
    max_age_hours,   \* the max_age_hours argument; 0 stands for None and 0
    setting_hours,   \* settings.max_headline_age_hours; 0 when unset
    stored,          \* the headlines table: rows with id, ticker, timestamp
    stored_before,   \* history: the table when the call started
    expired_rows,    \* the local rows: id and ticker of the selected rows
    cleanup          \* what cleanup_expired_records returned

cleanupVars == <<kpc, utcnow, max_age_hours, setting_hours, stored,
                 stored_before, expired_rows, cleanup>>

vars == <<gateVars, dedupeVars, ingestVars, scoreVars, analyzeVars, fetchVars,
          parseVars, aggregateVars, cleanupVars>>

notGate == <<dedupeVars, ingestVars, scoreVars, analyzeVars, fetchVars,
    parseVars, aggregateVars, cleanupVars>>
notDedupe == <<gateVars, ingestVars, scoreVars, analyzeVars, fetchVars,
    parseVars, aggregateVars, cleanupVars>>
notIngest == <<gateVars, dedupeVars, scoreVars, analyzeVars, fetchVars,
    parseVars, aggregateVars, cleanupVars>>
notScore == <<gateVars, dedupeVars, ingestVars, analyzeVars, fetchVars,
    parseVars, aggregateVars, cleanupVars>>
notAnalyze == <<gateVars, dedupeVars, ingestVars, scoreVars, fetchVars,
    parseVars, aggregateVars, cleanupVars>>
notFetch == <<gateVars, dedupeVars, ingestVars, scoreVars, analyzeVars,
    parseVars, aggregateVars, cleanupVars>>
notParse == <<gateVars, dedupeVars, ingestVars, scoreVars, analyzeVars,
    fetchVars, aggregateVars, cleanupVars>>
\* everything but the ingestion and cleanup variables
notCleanup == <<gateVars, dedupeVars, scoreVars, analyzeVars, fetchVars,
    parseVars, aggregateVars>>
notAggregate == <<gateVars, dedupeVars, ingestVars, scoreVars, analyzeVars,
    fetchVars, parseVars, cleanupVars>>

Callers == 1..NumCallers

(***************************************************************************)
(* RateLimiter.acquire                                                     *)
(***************************************************************************)
RECURSIVE SelectSeqFn(_, _, _)
\* list comprehension [x for x in s if keep(x)], order preserved
SelectSeqFn(s, t, w) ==
    IF s = <<>> THEN <<>>
    ELSE LET rest == SelectSeqFn(Tail(s), t, w)
         IN  IF t - Head(s) < w THEN <<Head(s)>> \o rest ELSE rest

\* self.calls = [call for call in self.calls if now - call < self.window]
Prune(cs, t) == SelectSeqFn(cs, t, Window)

\* if len(self.calls) >= self.rate_limit
AtLimitOff(cs) == Len(cs) > RateLimit
AtLimit(cs) == Len(cs) >= RateLimit

\* wait_time = self.window - (now - oldest), oldest = self.calls[0]
WaitTime(cs, t) == Window - (t - cs[1])

\* The clock advances.
Tick ==
    /\ now < MaxTime
    /\ now' = now + 1
    /\ UNCHANGED <<calls, gateLock, pc, wake, depth, completions, notGate>>

\* A coroutine calls acquire() and reaches `async with self.lock`.
Call(c) ==
    /\ pc[c] = "idle"
    /\ pc' = [pc EXCEPT ![c] = "lock"]
    /\ UNCHANGED <<now, calls, gateLock, wake, depth, completions, notGate>>

\* The body of acquire() from taking self.lock up to its first await or its
\* return: no other coroutine runs in between.  asyncio.Lock is not
\* re-entrant: the guard is the same for a nested acquire() frame of the
\* coroutine that already holds the lock.
Enter(c) ==
    /\ pc[c] = "lock"
    /\ gateLock = 0
    /\ LET kept == Prune(calls, now)
       IN  IF AtLimit(kept)
           THEN /\ calls' = kept
                /\ gateLock' = c
                /\ IF WaitTime(kept, now) > 0
                   THEN /\ pc' = [pc EXCEPT ![c] = "sleep"]
                        /\ wake' = [wake EXCEPT ![c] = now + WaitTime(kept, now)]
                        /\ depth' = depth
                   ELSE \* straight to the recursive self.acquire()
                        /\ pc' = [pc EXCEPT ![c] = "lock"]
                        /\ depth' = [depth EXCEPT ![c] = @ + 1]
                        /\ wake' = wake
                /\ UNCHANGED completions
           ELSE /\ calls' = Append(kept, now)
                /\ completions' = Append(completions, now)
                /\ gateLock' = 0
                /\ pc' = [pc EXCEPT ![c] = "done"]
                /\ depth' = [depth EXCEPT ![c] = 0]
                /\ UNCHANGED wake
    /\ UNCHANGED <<now, notGate>>

\* asyncio.sleep(wait_time) ends; the frame calls `return await self.acquire()`
\* while still inside `async with self.lock`.
Wake(c) ==
    /\ pc[c] = "sleep"
    /\ now >= wake[c]
    /\ pc' = [pc EXCEPT ![c] = "lock"]
    /\ depth' = [depth EXCEPT ![c] = @ + 1]
    /\ UNCHANGED <<now, calls, gateLock, wake, completions, notGate>>

\* The caller goes on with its network call and may come back later.
Return(c) ==
    /\ pc[c] = "done"
    /\ pc' = [pc EXCEPT ![c] = "idle"]
    /\ UNCHANGED <<now, calls, gateLock, wake, depth, completions, notGate>>

GateStart ==
    /\ now = 0
    /\ calls = <<>>
    /\ gateLock = 0
    /\ pc = [c \in Callers |-> "idle"]
    /\ wake = [c \in Callers |-> 0]
    /\ depth = [c \in Callers |-> 0]
    /\ completions = <<>>

GateStep ==
    \/ Tick
    \/ \E c \in Callers : Call(c)
    \/ \E c \in Callers : Enter(c)
    \/ \E c \in Callers : Wake(c)
    \/ \E c \in Callers : Return(c)

(***************************************************************************)
(* HeadlineDeduplicator                                                    *)
(* Python indices 0..n-1 are written 1..n.                                 *)
(***************************************************************************)
Tickers == {"AAPL", "MSFT"}
Scores == {84, 85}            \* fuzz.ratio results just below / at the threshold
Stamps == 1..2                \* headline_timestamp values

\* self.threshold = threshold * 100, threshold = 0.85
Threshold == 85

\* An item as the client builds it; has_duplicates / duplicate_count are the
\* keys deduplicate() adds (FALSE / 0 while the key is absent).
HeadlineItems ==
    [ticker : Tickers, is_primary_source : BOOLEAN, headline_timestamp : Stamps,
     has_duplicates : {FALSE}, duplicate_count : {0}]

PairsOf(n) == {p \in (1..n) \X (1..n) : p[1] < p[2]}

Range(f) == {f[x] : x \in DOMAIN f}

RECURSIVE SortedSeq(_)
\* list(a_set) of small ints: ascending
SortedSeq(S) ==
    IF S = {} THEN <<>>
    ELSE LET m == CHOOSE x \in S : \A y \in S : x <= y
         IN  <<m>> \o SortedSeq(S \ {m})

IsDuplicatePairLoose(hs, sc, i, j) == sc[<<i, j>>] >= Threshold
\* if similarity >= self.threshold: if same ticker: duplicates.append((i, j))
IsDuplicatePair(hs, sc, i, j) ==
    /\ sc[<<i, j>>] >= Threshold
    /\ hs[i].ticker = hs[j].ticker

RECURSIVE PairScan(_, _, _, _)
\* the two nested loops of find_duplicates, from position (i, j) on
PairScan(hs, sc, i, j) ==
    IF i > Len(hs) THEN <<>>
    ELSE IF j > Len(hs) THEN PairScan(hs, sc, i + 1, i + 2)
    ELSE (IF IsDuplicatePair(hs, sc, i, j) THEN << <<i, j>> >> ELSE <<>>)
         \o PairScan(hs, sc, i, j + 1)

find_duplicates(hs, sc) == PairScan(hs, sc, 1, 2)

RECURSIVE BuildGroups(_, _)
\* for i, j in duplicates: groups.setdefault(i, [i]); groups[i].append(j)
\* BuildGroups(dups, g) continues from the dict g
BuildGroups(dups, g) ==
    IF dups = <<>> THEN g
    ELSE LET i == Head(dups)[1]
             j == Head(dups)[2]
             g1 == IF i \in DOMAIN g THEN g ELSE (i :> <<i>>) @@ g
         IN  BuildGroups(Tail(dups), [g1 EXCEPT ![i] = Append(@, j)])

EmptyDict == [x \in {} |-> <<>>]

\* expanded = set(group); for idx in group: if idx in groups:
\*     expanded.update(groups[idx])
Expand(groups, group) ==
    Range(group) \cup
    UNION {Range(groups[idx]) : idx \in Range(group) \cap DOMAIN groups}

RECURSIVE MergeLoop(_, _, _, _, _)
\* for primary, group in groups.items(): the keys were inserted in ascending
\* order (find_duplicates emits ascending i), so the loop visits them ascending.
MergeLoop(groups, p, n, merged, seen) ==
    IF p > n THEN [merged |-> merged, seen |-> seen]
    ELSE IF p \notin DOMAIN groups \/ p \in seen
         THEN MergeLoop(groups, p + 1, n, merged, seen)
         ELSE LET expanded == Expand(groups, groups[p])
              IN  MergeLoop(groups, p + 1, n,
                            Append(merged, SortedSeq(expanded)),
                            seen \cup expanded)

RECURSIVE AppendSingletons(_, _)
\* for idx in all_indices - seen: merged_groups.append([idx])
AppendSingletons(merged, rest) ==
    IF rest = <<>> THEN merged
    ELSE AppendSingletons(Append(merged, <<Head(rest)>>), Tail(rest))

\* lines 809-838 of deduplicate(): the merged groups of a batch
GroupsOf(hs, sc) ==
    LET groups == BuildGroups(find_duplicates(hs, sc), EmptyDict)
        m == MergeLoop(groups, 1, Len(hs), <<>>, {})
    IN  AppendSingletons(m.merged, SortedSeq((1..Len(hs)) \ m.seen))

KeyLessByTimeOnly(a, b) == a.headline_timestamp < b.headline_timestamp
\* key=lambda h: (not h["is_primary_source"], h["headline_timestamp"])
KeyLess(a, b) ==
    \/ a.is_primary_source /\ ~b.is_primary_source
    \/ /\ a.is_primary_source = b.is_primary_source
       /\ a.headline_timestamp < b.headline_timestamp

RECURSIVE InsertSorted(_, _, _)
\* stable insertion of index x into the sorted index list s
InsertSorted(hs, s, x) ==
    IF s = <<>> THEN <<x>>
    ELSE IF KeyLess(hs[x], hs[Head(s)]) THEN <<x>> \o s
    ELSE <<Head(s)>> \o InsertSorted(hs, Tail(s), x)

RECURSIVE StableSort(_, _, _)
\* group_headlines.sort(key=...): list.sort is stable
StableSort(hs, group, acc) ==
    IF group = <<>> THEN acc
    ELSE StableSort(hs, Tail(group), InsertSorted(hs, acc, Head(group)))

\* best = group_headlines[0]
Best(hs, group) == Head(StableSort(hs, group, <<>>))

RECURSIVE SelectLoop(_, _, _)
\* for group in merged_groups: pick best, mark it, append it; the items are
\* the caller's dict objects, so marking changes the input list's items.
SelectLoop(hs, mg, out) ==
    IF mg = <<>> THEN [headlines |-> hs, deduplicated |-> out]
    ELSE LET group == Head(mg)
             best == Best(hs, group)
             hs1 == IF Len(group) > 1
                    THEN [hs EXCEPT ![best].has_duplicates = TRUE,
                                    ![best].duplicate_count = Len(group) - 1]
                    ELSE hs
         IN  SelectLoop(hs1, Tail(mg), Append(out, best))

\* deduplicate(headlines): lines 809-838, the groups
Group ==
    /\ dstage = "input"
    /\ merged_groups' = GroupsOf(headlines, score)
    /\ dstage' = "grouped"
    /\ UNCHANGED <<headlines, score, deduplicated, notDedupe>>

\* deduplicate(headlines): lines 840-863, one representative per group
Select ==
    /\ dstage = "grouped"
    /\ LET r == SelectLoop(headlines, merged_groups, <<>>)
       IN  /\ headlines' = r.headlines
           /\ deduplicated' = r.deduplicated
    /\ dstage' = "done"
    /\ UNCHANGED <<score, merged_groups, notDedupe>>

\* any batch of 1..MaxItems fetched items with any pairwise similarity
DedupeStart ==
    /\ \E n \in 1..MaxItems :
          /\ headlines \in [1..n -> HeadlineItems]
          /\ score \in [PairsOf(n) -> Scores]
    /\ dstage = "input"
    /\ merged_groups = <<>>
    /\ deduplicated = <<>>

\* a batch of WideItems items of one ticker and one timestamp, of any
\* authority and any pairwise similarity
DedupeWideStart ==
    /\ headlines \in [1..WideItems ->
                         {h \in HeadlineItems : /\ h.ticker = "AAPL"
                                                /\ h.headline_timestamp = 1}]
    /\ score \in [PairsOf(WideItems) -> Scores]
    /\ dstage = "input"
    /\ merged_groups = <<>>
    /\ deduplicated = <<>>

DedupeIdle ==
    /\ headlines = <<>>
    /\ score = <<>>
    /\ dstage = "idle"
    /\ merged_groups = <<>>
    /\ deduplicated = <<>>

DedupeStep ==
    \/ Group
    \/ Select

(***************************************************************************)
(* ingest_portfolios / ingest_single_portfolio                             *)
(***************************************************************************)
Sources == {1, 2}             \* portfolio ids
Hashes == {"h1", "h2"}        \* sha256 digests of normalized headlines

\* An item as FinvizClient._map_export_row builds it (the fields used here).
IngestItems ==
    [ticker : Tickers, headline_hash : Hashes, is_primary_source : BOOLEAN,
     headline_timestamp : {1}, has_duplicates : {FALSE}, duplicate_count : {0}]

\* What the upstream returns for a portfolio: the items and the fuzz.ratio
\* of each pair.  Equal hashes mean equal normalized text, hence ratio 100.
Batches(n) ==
    {b \in [items : [1..n -> IngestItems], score : [PairsOf(n) -> Scores]] :
        \A p \in PairsOf(n) :
            b.items[p[1]].headline_hash = b.items[p[2]].headline_hash
                => b.score[p] >= Threshold}

EmptyBatch == [items |-> <<>>, score |-> <<>>]

RECURSIVE SeqsUpTo(_, _)
\* the lists over S of length at most n
SeqsUpTo(S, n) ==
    IF n = 0 THEN {<<>>}
    ELSE LET shorter == SeqsUpTo(S, n - 1)
         IN  shorter \cup {Append(q, x) : q \in shorter, x \in S}

Workers == DOMAIN targets

\* deduplicator.deduplicate(raw_headlines): the returned list of items
deduped_payload(b) ==
    LET r == SelectLoop(b.items, GroupsOf(b.items, b.score), <<>>)
    IN  [k \in DOMAIN r.deduplicated |-> r.headlines[r.deduplicated[k]]]

\* existing_map: the hashes the lookup finds in the headlines table
ExistingHashes(table) == {row.headline_hash : row \in table}

\* if headline_hash in existing_map or headline_hash in seen_hashes
IsKnownNoLookup(h, existing, seen) == h \in seen
IsKnown(h, existing, seen) == h \in existing \/ h \in seen

RECURSIVE InstancesLoop(_, _, _, _, _, _)
\* for item in deduped_payload: ... (lines 278-313)
InstancesLoop(items, existing, seen, acc, dups, pid) ==
    IF items = <<>> THEN [new_instances |-> acc, duplicate_count |-> dups]
    ELSE LET item == Head(items)
             h == item.headline_hash
         IN  IF h = "" \/ IsKnown(h, existing, seen)
             THEN InstancesLoop(Tail(items), existing, seen, acc, dups + 1, pid)
             ELSE InstancesLoop(Tail(items), existing, seen \cup {h},
                                Append(acc, [headline_hash |-> h,
                                             ticker |-> item.ticker,
                                             portfolio_id |-> pid]),
                                dups, pid)

\* headline_hash = Column(String(64), unique=True, nullable=False):
\* the commit of rows is accepted only if no hash is stored twice
UniqueHashOkOff(rows, table) == TRUE
UniqueHashOk(rows, table) ==
    /\ \A k \in DOMAIN rows : rows[k].headline_hash \notin ExistingHashes(table)
    /\ \A k, l \in DOMAIN rows :
          rows[k].headline_hash = rows[l].headline_hash => k = l

RowsPartial(rows, w) ==
    {[headline_hash |-> rows[k].headline_hash, ticker |-> rows[k].ticker,
      portfolio_id |-> rows[k].portfolio_id,
      id |-> <<Len(results) + 1, w, k>>] : k \in DOMAIN rows \cap {1}}
\* the rows a committed batch adds; id is the primary key
Rows(rows, w) ==
    {[headline_hash |-> rows[k].headline_hash, ticker |-> rows[k].ticker,
      portfolio_id |-> rows[k].portfolio_id,
      id |-> <<Len(results) + 1, w, k>>] : k \in DOMAIN rows}

\* the dict a pass returns; only the "skipped" dict has a "reason" key
\* (lines 203-211), "" stands for its absence
ResultDict(pid, status, nf, np, nd) ==
    [portfolio_id |-> pid, status |-> status, fetched |-> nf,
     persisted |-> np, duplicates |-> nd,
     reason |-> IF status = "skipped" THEN "lock_not_acquired" ELSE ""]

Returned(r) == [kind |-> "returned", result |-> r]
Raised == [kind |-> "raised"]
Cancelled == [kind |-> "cancelled"]
NoOutcome == [kind |-> "none"]

\* target_portfolios = portfolio_ids or list(settings.finviz_portfolio_numbers)
TargetPortfolios(ids) == IF ids # <<>> THEN ids ELSE configured

NoTargetsOff(tp) == FALSE
\* if not target_portfolios: return {"status": "skipped", ...}
NoTargets(tp) == tp = <<>>

\* ingest_portfolios up to the creation of the tasks (lines 91-144)
IngestCall ==
    /\ ipc = "idle"
    /\ plan # <<>>
    /\ plan' = Tail(plan)
    /\ LET tp == TargetPortfolios(Head(plan))
       IN  IF ~enabled
           THEN /\ results' = Append(results, [status |-> "disabled",
                                               portfolio_ids |-> tp,
                                               details |-> <<>>])
                /\ UNCHANGED <<ipc, targets, wpc, lock_acquired, fetched,
                               new_instances, duplicate_count, outcome,
                               semaphore, overall>>
           ELSE IF NoTargets(tp)
           THEN /\ results' = Append(results, [status |-> "skipped",
                                               portfolio_ids |-> <<>>,
                                               details |-> <<>>,
                                               errors |-> 0])
                /\ UNCHANGED <<ipc, targets, wpc, lock_acquired, fetched,
                               new_instances, duplicate_count, outcome,
                               semaphore, overall>>
           ELSE /\ ipc' = "running"
                /\ targets' = tp
                /\ overall' = [status |-> "pending", portfolio_ids |-> tp,
                               details |-> <<>>, errors |-> 0, persisted |-> 0]
                /\ semaphore' = DEFAULT_CONCURRENCY
                /\ wpc' = [w \in DOMAIN tp |-> "queued"]
                /\ lock_acquired' = [w \in DOMAIN tp |-> FALSE]
                /\ fetched' = [w \in DOMAIN tp |-> FALSE]
                /\ new_instances' = [w \in DOMAIN tp |-> <<>>]
                /\ duplicate_count' = [w \in DOMAIN tp |-> 0]
                /\ outcome' = [w \in DOMAIN tp |-> NoOutcome]
                /\ UNCHANGED results
    /\ UNCHANGED <<cm, enabled, configured, payload, redisLocks, db,
                   lock_owner, cache, cache_failed, notIngest>>

\* CACHE_INVALIDATION_PATTERNS: "headlines:*", "analytics:summary:*",
\* "returns:ticker:*"
CachePrefixes == {"headlines", "analytics:summary", "returns:ticker"}

\* the keys the API caches: one per prefix and ticker
CacheKeys == [prefix : CachePrefixes, ticker : Tickers]

\* tickers: the tickers of the Headline rows the pass built
TickersOf(rows) == {rows[k].ticker : k \in DOMAIN rows}

InvalidationCallsPatternsOnly(tickers) ==
    IF cm = "none" THEN {} ELSE [prefix : CachePrefixes, ticker : {"*"}]
\* the delete calls invalidate_downstream_caches(cache_manager, tickers)
\* issues: delete_pattern(prefix:*) for each pattern (ticker "*" here), then
\* delete(cache_key("returns:ticker", ticker)) and
\* delete(cache_key("analytics:summary", ticker)) for each ticker; none when
\* cache_manager is None
InvalidationCalls(tickers) ==
    IF cm = "none" THEN {}
    ELSE [prefix : CachePrefixes, ticker : {"*"}]
            \cup [prefix : {"returns:ticker", "analytics:summary"},
                  ticker : tickers]

\* CacheManager.delete_pattern / delete: the keys one call removes; nothing
\* when self.redis is None
Deleted(call) ==
    IF cm # "redis" THEN {}
    ELSE {k \in CacheKeys : /\ k.prefix = call.prefix
                            /\ call.ticker \in {"*", k.ticker}}

\* the cache after the calls; a call that raises inside CacheManager is
\* logged there and removes nothing
CacheAfter(issued, failed) ==
    cache \ UNION {Deleted(c) : c \in issued \ failed}

\* the pass run by task w of the running ingest_portfolios call
PassId(w) == <<Len(results) + 1, w>>

NoOwner == <<0, 0>>

\* who set the lock key of each source that is still in the lock table
OwnersAfter(locks) ==
    [s \in Sources |-> IF s \in locks THEN lock_owner[s] ELSE NoOwner]

\* the same once pass w has left its fetch: w holds no lock any more, whether
\* its key was deleted or is left behind
OwnersAfterFetch(w, locks) ==
    [s \in Sources |-> IF lock_owner[s] = PassId(w) THEN NoOwner
                       ELSE OwnersAfter(locks)[s]]

\* worker: async with semaphore
AcquireSemaphoreNoWait(w) ==
    /\ wpc[w] = "queued"
    /\ semaphore' = semaphore - 1
    /\ wpc' = [wpc EXCEPT ![w] = "lock"]
    /\ UNCHANGED <<cm, enabled, configured, plan, payload, ipc, targets,
                   lock_acquired, fetched, new_instances, duplicate_count,
                   outcome, redisLocks, db, overall, results,
                   lock_owner, cache, cache_failed, notIngest>>
AcquireSemaphore(w) ==
    /\ wpc[w] = "queued"
    /\ semaphore > 0
    /\ semaphore' = semaphore - 1
    /\ wpc' = [wpc EXCEPT ![w] = "lock"]
    /\ UNCHANGED <<cm, enabled, configured, plan, payload, ipc, targets,
                   lock_acquired, fetched, new_instances, duplicate_count,
                   outcome, redisLocks, db, overall, results,
                   lock_owner, cache, cache_failed, notIngest>>

\* if cache_manager and not lock_acquired: return {... "status": "skipped" ...}
SkipsOnLockOff(got) == FALSE
SkipsOnLockRedisOnly(got) == cm = "redis" /\ ~got
SkipsOnLock(got) == cm # "none" /\ ~got

\* The pass after the lock attempt (lines 199-215): skipped, or the fetch is
\* invoked.
AfterLock(w, got) ==
    /\ lock_acquired' = [lock_acquired EXCEPT ![w] = got]
    /\ IF SkipsOnLock(got)
       THEN /\ outcome' = [outcome EXCEPT ![w] =
                              Returned(ResultDict(targets[w], "skipped", 0, 0, 0))]
            /\ wpc' = [wpc EXCEPT ![w] = "finished"]
            /\ semaphore' = semaphore + 1
            /\ UNCHANGED fetched
       ELSE /\ fetched' = [fetched EXCEPT ![w] = TRUE]
            /\ wpc' = [wpc EXCEPT ![w] = "fetching"]
            /\ UNCHANGED <<outcome, semaphore>>

\* lines 186-197: no lock is attempted (no cache manager, or its redis is None)
NoLockAttempt(w) ==
    /\ wpc[w] = "lock"
    /\ cm # "redis"
    /\ AfterLock(w, FALSE)
    /\ UNCHANGED <<cm, enabled, configured, plan, payload, ipc, targets,
                   new_instances, duplicate_count, redisLocks, db, overall,
                   results, lock_owner, cache, cache_failed, notIngest>>

\* lines 189-191: redis.set(lock_key, "1", nx=True, ex=300) answers
LockAttempt(w) ==
    /\ wpc[w] = "lock"
    /\ cm = "redis"
    /\ LET got == targets[w] \notin redisLocks
       IN  /\ redisLocks' = redisLocks \cup {targets[w]}
           /\ lock_owner' = IF got
                             THEN [lock_owner EXCEPT ![targets[w]] = PassId(w)]
                             ELSE lock_owner
           /\ AfterLock(w, got)
    /\ UNCHANGED <<cm, enabled, configured, plan, payload, ipc, targets,
                   new_instances, duplicate_count, db, overall, results,
                   cache, cache_failed, notIngest>>

\* lines 192-197: redis.set raises; lock_acquired stays False
LockAttemptRaises(w) ==
    /\ wpc[w] = "lock"
    /\ cm = "redis"
    /\ AfterLock(w, FALSE)
    /\ UNCHANGED <<cm, enabled, configured, plan, payload, ipc, targets,
                   new_instances, duplicate_count, redisLocks, db, overall,
                   results, lock_owner, cache, cache_failed, notIngest>>

\* the lock key's TTL (ex=300) runs out
LockExpire(s) ==
    /\ s \in redisLocks
    /\ redisLocks' = redisLocks \ {s}
    /\ lock_owner' = OwnersAfter(redisLocks \ {s})
    /\ UNCHANGED <<cm, enabled, configured, plan, payload, ipc, targets, wpc,
                   lock_acquired, fetched, new_instances, duplicate_count,
                   outcome, semaphore, db, overall, results, cache,
                   cache_failed, notIngest>>

\* finally: if cache_manager and lock_acquired:
\*     with contextlib.suppress(Exception): await redis.delete(lock_key)
\* the possible lock tables afterwards: the key is deleted, whoever set it,
\* or the delete raised and the key stays
AfterFetchLocks(w) ==
    IF cm # "none" /\ lock_acquired[w]
    THEN {redisLocks \ {targets[w]}, redisLocks}
    ELSE {redisLocks}

\* lines 214-236: fetch_portfolio_headlines raises
FetchFails(w) ==
    /\ wpc[w] = "fetching"
    /\ redisLocks' \in AfterFetchLocks(w)
    /\ lock_owner' = OwnersAfterFetch(w, redisLocks')
    /\ outcome' = [outcome EXCEPT ![w] =
                      Returned(ResultDict(targets[w], "error", 0, 0, 0))]
    /\ wpc' = [wpc EXCEPT ![w] = "finished"]
    /\ semaphore' = semaphore + 1
    /\ UNCHANGED <<cm, enabled, configured, plan, payload, ipc, targets,
                   lock_acquired, fetched, new_instances, duplicate_count,
                   db, overall, results, cache, cache_failed, notIngest>>

\* lines 214-261: fetch_portfolio_headlines returns; the lock is released;
\* an empty list ends the pass, otherwise the batch is deduplicated and the
\* existing-hash lookup is issued
FetchReturns(w) ==
    /\ wpc[w] = "fetching"
    /\ redisLocks' \in AfterFetchLocks(w)
    /\ lock_owner' = OwnersAfterFetch(w, redisLocks')
    /\ IF payload[targets[w]].items = <<>>
       THEN /\ outcome' = [outcome EXCEPT ![w] =
                              Returned(ResultDict(targets[w], "empty", 0, 0, 0))]
            /\ wpc' = [wpc EXCEPT ![w] = "finished"]
            /\ semaphore' = semaphore + 1
       ELSE /\ wpc' = [wpc EXCEPT ![w] = "lookup"]
            /\ UNCHANGED <<outcome, semaphore>>
    /\ UNCHANGED <<cm, enabled, configured, plan, payload, ipc, targets,
                   lock_acquired, fetched, new_instances, duplicate_count,
                   db, overall, results, cache, cache_failed, notIngest>>

\* lines 263-313: the lookup answers; the new rows are built
Lookup(w) ==
    /\ wpc[w] = "lookup"
    /\ LET r == InstancesLoop(deduped_payload(payload[targets[w]]),
                              ExistingHashes(db), {}, <<>>, 0, targets[w])
       IN  /\ new_instances' = [new_instances EXCEPT ![w] = r.new_instances]
           /\ duplicate_count' = [duplicate_count EXCEPT ![w] = r.duplicate_count]
    /\ wpc' = [wpc EXCEPT ![w] = "commit"]
    /\ UNCHANGED <<cm, enabled, configured, plan, payload, ipc, targets,
                   lock_acquired, fetched, outcome, semaphore, redisLocks, db,
                   overall, results,
                   lock_owner, cache, cache_failed, notIngest>>

\* lines 315-319: db.commit() succeeds; the finally clause then invalidates
\* the caches and the result dict is returned (lines 328-352)
CommitOk(w) ==
    /\ wpc[w] = "commit"
    /\ UniqueHashOk(new_instances[w], db)
    /\ db' = db \cup Rows(new_instances[w], w)
    /\ outcome' = [outcome EXCEPT ![w] =
                      Returned(ResultDict(targets[w], "success",
                                          Len(payload[targets[w]].items),
                                          Len(new_instances[w]),
                                          duplicate_count[w]))]
    /\ wpc' = [wpc EXCEPT ![w] = "invalidate"]
    /\ UNCHANGED <<cm, enabled, configured, plan, payload, ipc, targets,
                   lock_acquired, fetched, new_instances, duplicate_count,
                   semaphore, redisLocks, overall, results,
                   lock_owner, cache, cache_failed, notIngest>>

\* lines 315-329: db.commit() raises (a uniqueness violation or any other
\* database error); rollback; the finally clause invalidates the caches and
\* the exception goes on
CommitFails(w) ==
    /\ wpc[w] = "commit"
    /\ outcome' = [outcome EXCEPT ![w] = Raised]
    /\ wpc' = [wpc EXCEPT ![w] = "invalidate"]
    /\ UNCHANGED <<cm, enabled, configured, plan, payload, ipc, targets,
                   lock_acquired, fetched, new_instances, duplicate_count,
                   semaphore, redisLocks, db, overall, results,
                   lock_owner, cache, cache_failed, notIngest>>

\* finally: await invalidate_downstream_caches(cache_manager, tickers=tickers)
\* (lines 328-329, 409-436) with the calls in failed raising inside
\* CacheManager; the pass then ends with the outcome of its commit
InvalidateWith(w, failed) ==
    /\ wpc[w] = "invalidate"
    /\ cache' = CacheAfter(InvalidationCalls(TickersOf(new_instances[w])), failed)
    /\ cache_failed' = cache_failed \cup failed
    /\ wpc' = [wpc EXCEPT ![w] = "finished"]
    /\ semaphore' = semaphore + 1
    /\ UNCHANGED <<cm, enabled, configured, plan, payload, ipc, targets,
                   lock_acquired, fetched, new_instances, duplicate_count,
                   outcome, redisLocks, db, overall, results, lock_owner,
                   notIngest>>

\* the invalidation with every cache call answering
Invalidate(w) == InvalidateWith(w, {})

\* the sets of calls that raise in one invalidation: a single call, or all
\* of them (redis is down)
FailureSets(issued) == {{c} : c \in issued} \cup {issued}

\* the invalidation with some calls raising in redis: CacheManager logs the
\* error and returns (cache.py:83-85, 102-104)
InvalidateSomeFail(w) ==
    /\ cm = "redis"
    /\ \E failed \in FailureSets(InvalidationCalls(TickersOf(new_instances[w]))) :
          InvalidateWith(w, failed)

\* The task of pass w is cancelled while the pass awaits the lookup, the
\* commit or a cache call: CancelledError is raised at that await.  It is
\* not an Exception, so no except clause of the pass handles it; nothing was
\* committed unless db.commit() had returned, and the session is closed
\* without a commit.  A cancellation at the commit still runs the finally
\* clause (the invalidation).
CancelAt(stage) == stage \in {"lookup", "commit", "invalidate"}

Cancel(w) ==
    /\ CancelAt(wpc[w])
    /\ outcome' = [outcome EXCEPT ![w] = Cancelled]
    /\ IF wpc[w] = "commit"
       THEN /\ wpc' = [wpc EXCEPT ![w] = "invalidate"]
            /\ UNCHANGED semaphore
       ELSE /\ wpc' = [wpc EXCEPT ![w] = "finished"]
            /\ semaphore' = semaphore + 1
    /\ UNCHANGED <<cm, enabled, configured, plan, payload, ipc, targets,
                   lock_acquired, fetched, new_instances, duplicate_count,
                   redisLocks, db, overall, results,
                   lock_owner, cache, cache_failed, notIngest>>

\* lines 146-153: one turn of the as_completed loop
\*   try: result = await task; details.append(result); persisted += ...
\*   except Exception: errors += 1
CollectedUncaught(ov, o) ==
    IF o.kind = "returned"
    THEN [ov EXCEPT !.details = Append(@, o.result),
                    !.persisted = @ + o.result.persisted]
    ELSE [ov EXCEPT !.status = "raised"]
Collected(ov, o) ==
    IF o.kind = "returned"
    THEN [ov EXCEPT !.details = Append(@, o.result),
                    !.persisted = @ + o.result.persisted]
    ELSE IF o.kind = "raised"
    THEN [ov EXCEPT !.errors = @ + 1]
    ELSE [ov EXCEPT !.status = "raised"]   \* CancelledError is no Exception

Collect(w) ==
    /\ ipc = "running"
    /\ wpc[w] = "finished"
    /\ overall.status = "pending"
    /\ overall' = Collected(overall, outcome[w])
    /\ wpc' = [wpc EXCEPT ![w] = "collected"]
    /\ UNCHANGED <<cm, enabled, configured, plan, payload, ipc, targets,
                   lock_acquired, fetched, new_instances, duplicate_count,
                   outcome, semaphore, redisLocks, db, results,
                   lock_owner, cache, cache_failed, notIngest>>

\* overall["status"] = "completed" if overall["errors"] == 0 else "partial"
FinalStatus(ov) == IF ov.errors = 0 THEN "completed" ELSE "partial"

\* lines 155-160: every task was awaited; the call returns overall.  An
\* exception that left the loop leaves the call instead.
IngestReturn ==
    /\ ipc = "running"
    /\ \/ \A w \in Workers : wpc[w] = "collected"
       \/ overall.status = "raised"
    /\ results' = Append(results,
                         IF overall.status = "raised" THEN overall
                         ELSE [overall EXCEPT !.status = FinalStatus(overall)])
    /\ ipc' = "idle"
    /\ UNCHANGED <<cm, enabled, configured, plan, payload, targets, wpc,
                   lock_acquired, fetched, new_instances, duplicate_count,
                   outcome, semaphore, redisLocks, db, overall,
                   lock_owner, cache, cache_failed, notIngest>>

IngestStart ==
    /\ ipc = "idle"
    /\ targets = <<>>
    /\ wpc = <<>>
    /\ lock_acquired = <<>>
    /\ fetched = <<>>
    /\ new_instances = <<>>
    /\ duplicate_count = <<>>
    /\ outcome = <<>>
    /\ semaphore = DEFAULT_CONCURRENCY
    /\ redisLocks = {}
    /\ lock_owner = [s \in Sources |-> NoOwner]
    /\ cache = CacheKeys
    /\ cache_failed = {}
    /\ db = {}
    /\ overall = [status |-> "none"]
    /\ results = <<>>

IngestIdle ==
    /\ IngestStart
    /\ cm = "none"
    /\ enabled = FALSE
    /\ configured = <<>>
    /\ plan = <<>>
    /\ payload = <<>>

IngestStep ==
    \/ IngestCall
    \/ \E w \in Workers : AcquireSemaphore(w)
    \/ \E w \in Workers : NoLockAttempt(w)
    \/ \E w \in Workers : LockAttempt(w)
    \/ \E w \in Workers : LockAttemptRaises(w)
    \/ \E s \in Sources : LockExpire(s)
    \/ \E w \in Workers : FetchFails(w)
    \/ \E w \in Workers : FetchReturns(w)
    \/ \E w \in Workers : Lookup(w)
    \/ \E w \in Workers : CommitOk(w)
    \/ \E w \in Workers : CommitFails(w)
    \/ \E w \in Workers : Invalidate(w)
    \/ \E w \in Workers : Collect(w)
    \/ IngestReturn

\* the pipeline with task cancellation and raising cache calls
FaultStep ==
    \/ IngestStep
    \/ \E w \in Workers : InvalidateSomeFail(w)
    \/ \E w \in Workers : Cancel(w)

\* The sources a list of ids resolves to; payloads of sources that are not
\* targeted are never read and are left empty.
Targeted(ids) == Range(TargetPortfolios(ids))

\* One ingest_portfolios call with any target list, any configuration, and
\* a payload of at most one headline per portfolio (the headline's hash is
\* free; its ticker and source kind are read by no step of the pass except
\* to copy them).
IngestInputs ==
    /\ cm \in {"none", "noredis", "redis"}
    /\ enabled \in BOOLEAN
    /\ \E ids \in SeqsUpTo(Sources, MaxTargets) :
          /\ plan = <<ids>>
          /\ configured \in (IF ids = <<>> THEN {<<>>, <<1>>} ELSE {<<>>})
          /\ payload \in [Sources -> {EmptyBatch} \cup Batches(1)]
          /\ \A s \in Sources \ Targeted(ids) : payload[s] = EmptyBatch
          /\ \A s \in Sources : \A k \in DOMAIN payload[s].items :
                /\ ~payload[s].items[k].is_primary_source
                /\ payload[s].items[k].ticker = "AAPL"

\* The same portfolio ingested twice in sequence, the upstream unchanged.
TwiceInputs ==
    /\ cm \in {"none", "redis"}
    /\ enabled = TRUE
    /\ configured = <<>>
    /\ \E s \in Sources :
          /\ plan = << <<s>>, <<s>> >>
          /\ payload \in [Sources -> UNION {Batches(n) : n \in 0..MaxBatch}]
          /\ \A t \in Sources \ {s} : payload[t] = EmptyBatch


(***************************************************************************)
(* analyze_headline_task (routers/sentiment.py)                            *)
(***************************************************************************)
Runs == 1..NumRuns
HeadlineIds == {1, 2}
Models == {"groq:a", "openrouter:b"}

\* the sentiment each model returns for a headline
Sentiment(m) == IF m = "groq:a" THEN 1 ELSE -1

RECURSIVE SentimentSum(_)
\* sentiment_sum = sum(sentiments)
SentimentSum(ms) ==
    IF ms = {} THEN 0
    ELSE LET m == CHOOSE x \in ms : TRUE
         IN  Sentiment(m) + SentimentSum(ms \ {m})

\* majority_vote of _aggregate_sentiments
MajorityVote(ms) ==
    IF SentimentSum(ms) > 0 THEN 1
    ELSE IF SentimentSum(ms) < 0 THEN -1
    ELSE 0

\* what analyzer.analyze_headline returns: the results of the models that
\* gave a valid one (at least one) and the aggregate over them
AnalysisResults ==
    {[model_results |-> ms, majority_vote |-> MajorityVote(ms)] :
        ms \in SUBSET Models \ {{}}}

HasAggregate(h) == \E a \in sentiment_aggregates : a.headline_id = h

\* An endpoint schedules the task for a headline that has no aggregate yet
\* (the endpoints select unanalyzed headlines only).
Schedule(r, h) ==
    /\ spc[r] = "idle"
    /\ ~HasAggregate(h)
    /\ spc' = [spc EXCEPT ![r] = "analyze"]
    /\ sitem' = [sitem EXCEPT ![r] = h]
    /\ UNCHANGED <<sresult, sentiment_aggregates, sentiment_analyses, notScore>>

\* analyzer.analyze_headline(headline_data, models) returns
Analyzed(r, res) ==
    /\ spc[r] = "analyze"
    /\ sresult' = [sresult EXCEPT ![r] = res]
    /\ spc' = [spc EXCEPT ![r] = "check"]
    /\ UNCHANGED <<sitem, sentiment_aggregates, sentiment_analyses, notScore>>

\* analyzer.analyze_headline raises (every model failed); the task logs it
AnalysisFails(r) ==
    /\ spc[r] = "analyze"
    /\ spc' = [spc EXCEPT ![r] = "failed"]
    /\ UNCHANGED <<sitem, sresult, sentiment_aggregates, sentiment_analyses,
                   notScore>>

\* if existing_aggregate.scalar_one_or_none(): return
SkipsExisting(h) == HasAggregate(h)

\* the task's own check for an existing aggregate, in a fresh session
CheckExisting(r) ==
    /\ spc[r] = "check"
    /\ spc' = [spc EXCEPT ![r] = IF SkipsExisting(sitem[r]) THEN "skipped"
                                 ELSE "commit"]
    /\ UNCHANGED <<sitem, sresult, sentiment_aggregates, sentiment_analyses,
                   notScore>>

\* headline_id = Column(..., unique=True) of sentiment_aggregates and
\* UniqueConstraint("headline_id", "model_provider", "model_name") of
\* sentiment_analyses: the commit is accepted only if both still hold
ScoreUniqueOkOff(h, ms) == TRUE
ScoreUniqueOk(h, ms) ==
    /\ ~HasAggregate(h)
    /\ \A v \in sentiment_analyses : ~(v.headline_id = h /\ v.model \in ms)

\* the SentimentAnalysis rows the task adds to its session, one for each
\* model result
AnalysisRows(r) ==
    {[headline_id |-> sitem[r], model |-> m, id |-> r] :
        m \in sresult[r].model_results}

\* the rows of the session that are stored although its commit raised: the
\* adds and the commit are one transaction, `async with AsyncSessionLocal()`
\* closes the session without committing
KeptOnFailureVotes(r) == AnalysisRows(r)
KeptOnFailure(r) == {}

\* session.add(...) for every model result and the aggregate; session.commit()
CommitScores(r) ==
    /\ spc[r] = "commit"
    /\ ScoreUniqueOk(sitem[r], sresult[r].model_results)
    /\ sentiment_analyses' = sentiment_analyses \cup AnalysisRows(r)
    /\ sentiment_aggregates' = sentiment_aggregates \cup
          {[headline_id |-> sitem[r], id |-> r,
            majority_vote |-> sresult[r].majority_vote,
            num_models |-> Cardinality(sresult[r].model_results)]}
    /\ spc' = [spc EXCEPT ![r] = "done"]
    /\ UNCHANGED <<sitem, sresult, notScore>>

\* session.commit() raises (a uniqueness violation or another database
\* error): nothing of the transaction is stored, the task logs the error
CommitScoresFails(r) ==
    /\ spc[r] = "commit"
    /\ spc' = [spc EXCEPT ![r] = "rejected"]
    /\ sentiment_analyses' = sentiment_analyses \cup KeptOnFailure(r)
    /\ UNCHANGED <<sitem, sresult, sentiment_aggregates, notScore>>

NoResult == [model_results |-> {}, majority_vote |-> 0]

ScoreStart ==
    /\ spc = [r \in Runs |-> "idle"]
    /\ sitem = [r \in Runs |-> 0]
    /\ sresult = [r \in Runs |-> NoResult]
    /\ sentiment_aggregates = {}
    /\ sentiment_analyses = {}

ScoreStep ==
    \/ \E r \in Runs, h \in HeadlineIds : Schedule(r, h)
    \/ \E r \in Runs, res \in AnalysisResults : Analyzed(r, res)
    \/ \E r \in Runs : AnalysisFails(r)
    \/ \E r \in Runs : CheckExisting(r)
    \/ \E r \in Runs : CommitScores(r)
    \/ \E r \in Runs : CommitScoresFails(r)

(***************************************************************************)
(* SentimentAnalyzer.analyze_headline (services/sentiment_analyzer.py)     *)
(***************************************************************************)
Providers == {"groq", "openrouter"}

\* _get_provider(model): the prefix before ":" of a prefixed model name
get_provider(m) == IF m = "groq:a" THEN "groq" ELSE "openrouter"

\* settings.selected_models is configured as a list of distinct models
ConfiguredLists == {<<>>, <<"groq:a">>, <<"groq:a", "openrouter:b">>}

\* models = models or settings.selected_models
EffectiveModels(arg) == IF arg # <<>> THEN arg ELSE selected_models

\* if rate_limiter_key in self.rate_limiters (filled from
\* settings.selected_models by __aenter__)
HasLimiter(m) == m \in Range(selected_models)

\* @retry(stop=stop_after_attempt(2), ...) of _call_groq / _call_openrouter
MaxCallAttempts == 2

Tasks == DOMAIN models

\* the exceptions a backend call can raise, by kind
ErrorKinds == {"transient", "auth"}

\* @retry(stop=stop_after_attempt(2), wait=...): no retry= predicate, every
\* exception is retried while fewer than 2 attempts were made
RetriesAfter(kind, made) == made < MaxCallAttempts

NoAnalysis == [kind |-> "none"]

\* analyze_headline up to asyncio.gather (lines 112-127)
AnalyzeCall ==
    /\ apc = "idle"
    /\ LET ms == EffectiveModels(arg_models)
       IN  /\ models' = ms
           /\ IF ms = <<>>
              THEN /\ apc' = "raised"
                   /\ analysis' = [kind |-> "raised",
                                   error |-> "No models selected for analysis"]
                   /\ UNCHANGED <<tpc, acquires, attempts, retried_errors>>
              ELSE /\ apc' = "running"
                   /\ tpc' = [t \in DOMAIN ms |-> "start"]
                   /\ acquires' = [t \in DOMAIN ms |-> 0]
                   /\ attempts' = [t \in DOMAIN ms |-> 0]
                   /\ retried_errors' = [t \in DOMAIN ms |-> <<>>]
                   /\ UNCHANGED analysis
    /\ UNCHANGED <<selected_models, clients, arg_models, notAnalyze>>

\* _analyze_with_model, lines 173-179: acquire() on the model's limiter, if
\* it has one
TaskStart(t) ==
    /\ apc = "running"
    /\ tpc[t] = "start"
    /\ acquires' = [acquires EXCEPT ![t] =
                       IF HasLimiter(models[t]) THEN @ + 1 ELSE @]
    /\ tpc' = [tpc EXCEPT ![t] = "call"]
    /\ UNCHANGED <<selected_models, clients, arg_models, apc, models,
                   attempts, analysis, retried_errors, notAnalyze>>

\* _call_groq / _call_openrouter raise "client not initialized" on each of
\* their attempts, before any request is sent
TaskClientMissing(t) ==
    /\ apc = "running"
    /\ tpc[t] = "call"
    /\ get_provider(models[t]) \notin clients
    /\ tpc' = [tpc EXCEPT ![t] = "failed"]
    /\ UNCHANGED <<selected_models, clients, arg_models, apc, models,
                   acquires, attempts, analysis, retried_errors, notAnalyze>>

\* an attempt of the backend call returns a response; _parse_model_response
\* accepts it (ok) or raises ValueError (lines 184-205)
CallReturns(t, ok) ==
    /\ apc = "running"
    /\ tpc[t] = "call"
    /\ get_provider(models[t]) \in clients
    /\ attempts' = [attempts EXCEPT ![t] = @ + 1]
    /\ tpc' = [tpc EXCEPT ![t] = IF ok THEN "valid" ELSE "failed"]
    /\ UNCHANGED <<selected_models, clients, arg_models, apc, models,
                   acquires, analysis, retried_errors, notAnalyze>>

\* an attempt of the backend call raises an exception of some kind (a
\* transient failure, an authorization failure): @retry has no predicate, so
\* tenacity makes one more attempt whatever was raised, then gives up
\* (lines 216-219, 254-257)
CallRaises(t, kind) ==
    /\ apc = "running"
    /\ tpc[t] = "call"
    /\ get_provider(models[t]) \in clients
    /\ attempts' = [attempts EXCEPT ![t] = @ + 1]
    /\ retried_errors' = [retried_errors EXCEPT ![t] =
                          IF RetriesAfter(kind, attempts[t] + 1)
                          THEN Append(@, kind) ELSE @]
    /\ tpc' = [tpc EXCEPT ![t] = IF RetriesAfter(kind, attempts[t] + 1)
                                 THEN "call" ELSE "failed"]
    /\ UNCHANGED <<selected_models, clients, arg_models, apc, models,
                   acquires, analysis, notAnalyze>>

RECURSIVE ValidResults(_, _)
\* valid_results: the results of the tasks that returned, in models order
ValidResults(ms, st) ==
    IF ms = <<>> THEN <<>>
    ELSE (IF Head(st) = "valid"
          THEN <<[model |-> Head(ms), sentiment |-> Sentiment(Head(ms))]>>
          ELSE <<>>) \o ValidResults(Tail(ms), Tail(st))

ErrorEntriesNone(ms, st) == <<>>
RECURSIVE ErrorEntries(_, _)
\* errors: one {"model", "error"} entry per task whose result is an exception
ErrorEntries(ms, st) ==
    IF ms = <<>> THEN <<>>
    ELSE (IF Head(st) # "valid" THEN <<[model |-> Head(ms)]>> ELSE <<>>)
         \o ErrorEntries(Tail(ms), Tail(st))

RECURSIVE SumOfSentiments(_)
\* sentiment_sum = sum(sentiments)
SumOfSentiments(vs) ==
    IF vs = <<>> THEN 0 ELSE Head(vs).sentiment + SumOfSentiments(Tail(vs))

VoteOfTieUp(vs) == IF SumOfSentiments(vs) >= 0 THEN 1 ELSE -1
\* majority_vote of _aggregate_sentiments(valid_results)
VoteOf(vs) ==
    IF SumOfSentiments(vs) > 0 THEN 1
    ELSE IF SumOfSentiments(vs) < 0 THEN -1
    ELSE 0

\* if not valid_results: raise ValueError("All models failed ...")
AllFailedOff(valid) == FALSE
AllFailed(valid) == valid = <<>>

SettledAny(st) == TRUE
\* results = await asyncio.gather(*tasks, return_exceptions=True): gather
\* completes when each task has returned a result or raised
Settled(st) == st \in {"valid", "failed"}

\* asyncio.gather returned: lines 130-165
AnalyzeReturn ==
    /\ apc = "running"
    /\ \A t \in Tasks : Settled(tpc[t])
    /\ LET valid == ValidResults(models, tpc)
           errors == ErrorEntries(models, tpc)
       IN  IF AllFailed(valid)
           THEN /\ apc' = "raised"
                /\ analysis' = [kind |-> "raised",
                                error |-> "All models failed to analyze headline"]
           ELSE /\ apc' = "returned"
                /\ analysis' = [kind |-> "returned", model_results |-> valid,
                                errors |-> errors, majority_vote |-> VoteOf(valid),
                                num_models |-> Len(valid)]
    /\ UNCHANGED <<selected_models, clients, arg_models, models, tpc,
                   acquires, attempts, retried_errors, notAnalyze>>

AnalyzeStart ==
    /\ selected_models \in ConfiguredLists
    /\ clients \in SUBSET Providers
    /\ arg_models \in SeqsUpTo(Models, MaxModels)
    /\ apc = "idle"
    /\ models = <<>>
    /\ tpc = <<>>
    /\ acquires = <<>>
    /\ attempts = <<>>
    /\ retried_errors = <<>>
    /\ analysis = NoAnalysis

AnalyzeIdle ==
    /\ selected_models = <<>>
    /\ clients = {}
    /\ arg_models = <<>>
    /\ apc = "off"
    /\ models = <<>>
    /\ tpc = <<>>
    /\ acquires = <<>>
    /\ attempts = <<>>
    /\ retried_errors = <<>>
    /\ analysis = NoAnalysis

AnalyzeStep ==
    \/ AnalyzeCall
    \/ \E t \in Tasks : TaskStart(t)
    \/ \E t \in Tasks : TaskClientMissing(t)
    \/ \E t \in Tasks, ok \in BOOLEAN : CallReturns(t, ok)
    \/ \E t \in Tasks, kind \in ErrorKinds : CallRaises(t, kind)
    \/ AnalyzeReturn

(***************************************************************************)
(* FinvizClient.fetch_portfolio_headlines (services/finviz_client.py)      *)
(***************************************************************************)
\* What a GET can come to.  "items" / "empty": a 200 response from which
\* headlines / no headlines are parsed.  "transient": a network error, a
\* timeout or a 5xx status; "permanent": a 401 / 403 status; both are
\* httpx.HTTPError (raise_for_status raises httpx.HTTPStatusError).
\* "other": an exception that is not an httpx.HTTPError (parsing).
GetOutcomes == {"items", "empty", "transient", "permanent", "other"}

\* retry_if_exception_type((httpx.HTTPError, httpx.TimeoutException))
IsHTTPError(exc) == exc \in {"transient", "permanent"}

\* stop=stop_after_attempt(3) of fetch_portfolio_headlines
MaxFetchAttempts == 3

\* tenacity makes a further attempt while fewer than 3 were made
AttemptsLeftOneMore(n) == n < MaxFetchAttempts + 1
AttemptsLeft(n) == n < MaxFetchAttempts

\* ingest_single_portfolio, lines 214-232: an exception of the fetch is
\* caught and the pass returns status "error"; otherwise the pass goes on
StatusOnFetch(ended) == IF ended = "raised" THEN "error" ELSE "fetched"

\* fetch_portfolio_headlines is called
FetchCall ==
    /\ fpc = "idle"
    /\ fpc' = "acquire"
    /\ fattempt' = 1
    /\ UNCHANGED <<scrape_site, fetch_log, notFetch>>

\* lines 69-75: await self.rate_limiter.acquire(), then the export GET is sent
FetchAcquire ==
    /\ fpc = "acquire"
    /\ fetch_log' = fetch_log \o <<"acquire", "get_export">>
    /\ fpc' = "export"
    /\ UNCHANGED <<fattempt, scrape_site, notFetch>>

\* the log with the failure of the GET that came to o, if it is an HTTP error
LogFailure(o) == fetch_log \o (IF IsHTTPError(o) THEN <<o>> ELSE <<>>)

\* lines 75-104: the export GET answers.  Headlines are returned; an empty
\* export calls _fallback_fetch_scrape inside the try block, any exception
\* calls it from the except block.  _fallback_fetch_scrape (245-252) sends
\* its GET at once.
ExportResponds(o) ==
    /\ fpc = "export"
    /\ IF o = "items"
       THEN /\ fpc' = "returned"
            /\ UNCHANGED <<scrape_site, fetch_log>>
       ELSE /\ fpc' = "scrape"
            /\ scrape_site' = IF o = "empty" THEN "try" ELSE "except"
            /\ fetch_log' = LogFailure(o) \o <<"get_scrape">>
    /\ UNCHANGED <<fattempt, notFetch>>

\* lines 89-112 and 245-252: the GET of _fallback_fetch_scrape answers.
\* A response is returned as the headlines (possibly none).  An exception
\* raised inside the try block is caught by `except Exception` and the
\* function is called again from there; raised from the except block, it
\* leaves fetch_portfolio_headlines, whose tenacity wrapper makes a further
\* attempt if it is an HTTP error and attempts are left.
ScrapeResponds(o) ==
    /\ fpc = "scrape"
    /\ IF o \in {"items", "empty"}
       THEN /\ fpc' = "returned"
            /\ UNCHANGED <<fattempt, scrape_site, fetch_log>>
       ELSE IF scrape_site = "try"
       THEN /\ scrape_site' = "except"
            /\ fetch_log' = LogFailure(o) \o <<"get_scrape">>
            /\ UNCHANGED <<fpc, fattempt>>
       ELSE /\ fetch_log' = LogFailure(o)
            /\ IF IsHTTPError(o) /\ AttemptsLeft(fattempt)
               THEN /\ fpc' = "acquire"
                    /\ fattempt' = fattempt + 1
               ELSE /\ fpc' = "raised"
                    /\ UNCHANGED fattempt
            /\ UNCHANGED scrape_site
    /\ UNCHANGED notFetch

FetchStart ==
    /\ fpc = "idle"
    /\ fattempt = 0
    /\ scrape_site = "none"
    /\ fetch_log = <<>>

FetchIdle ==
    /\ fpc = "off"
    /\ fattempt = 0
    /\ scrape_site = "none"
    /\ fetch_log = <<>>

FetchStep ==
    \/ FetchCall
    \/ FetchAcquire
    \/ \E o \in GetOutcomes : ExportResponds(o)
    \/ \E o \in GetOutcomes : ScrapeResponds(o)

(***************************************************************************)
(* SentimentAnalyzer._parse_model_response                                 *)
(***************************************************************************)
\* valid_horizons = ["<1h", "1-4h", "same_day", "next_open", "24h"]
valid_horizons == <<"<1h", "1-4h", "same_day", "next_open", "24h">>

\* if len(rationale) > 275
RationaleCap == 275

\* rationale[:272]
RationaleKept == 272

\* len("...")
EllipsisLen == 3

\* data.get("sentiment"): an integer, or None when the key is absent
SentimentValues ==
    {[kind |-> "int", value |-> v] : v \in -2..2}
        \cup {[kind |-> "none", value |-> 0]}

\* data.get("confidence", 0.5): a number (in tenths), NaN (json.loads reads
\* the literal NaN as float("nan")), a string, or the key is absent
ConfidenceValues ==
    {[kind |-> "num", tenths |-> n] : n \in {-1, 0, 5, 10, 11}}
        \cup {[kind |-> "nan", tenths |-> 0], [kind |-> "text", tenths |-> 5],
              [kind |-> "absent", tenths |-> 0]}

\* data.get("horizon", "same_day"): a string, or the key is absent
HorizonValues == Range(valid_horizons) \cup {"1w", "absent"}

\* data.get("rationale", ""): a string of some length, or a value that is
\* not a string and whose str() has that length
RationaleValues ==
    [is_str : BOOLEAN,
     len : {0, RationaleCap - 1, RationaleCap, RationaleCap + 1,
            RationaleCap + 25}]

Responses ==
    [json : BOOLEAN, sentiment : SentimentValues,
     confidence : ConfidenceValues, horizon : HorizonValues,
     rationale : RationaleValues]

\* Python's  x < n  on a float: False when x is NaN
NumLess(c, n) == c.kind = "num" /\ c.tenths < n

\* Python's  x > n  on a float: False when x is NaN
NumGreater(c, n) == c.kind = "num" /\ c.tenths > n

\* isinstance(confidence, (int, float)): NaN is a float
IsNumber(c) == c.kind \in {"num", "nan"}

\* if sentiment not in [-1, 0, 1]
SentimentOk(s) == s.kind = "int" /\ s.value \in {-1, 0, 1}

\* if not isinstance(confidence, (int, float)) or confidence < 0 or
\* confidence > 1   (1 is 10 tenths)
ConfidenceRejected(c) == ~IsNumber(c) \/ NumLess(c, 0) \/ NumGreater(c, 10)

\* if len(rationale) > 275: rationale = rationale[:272] + "..."
Truncate(r) ==
    IF r.len > RationaleCap
    THEN [len |-> RationaleKept + EllipsisLen, ellipsis |-> TRUE]
    ELSE [len |-> r.len, ellipsis |-> FALSE]

ParseRaises(msg) == [kind |-> "raised", error |-> msg]

\* _parse_model_response(response), lines 332-370
parse_model_response(r) ==
    IF ~r.json THEN ParseRaises("Invalid JSON response")
    ELSE IF ~SentimentOk(r.sentiment) THEN ParseRaises("Invalid sentiment value")
    ELSE LET confidence == IF r.confidence.kind = "absent"
                           THEN [kind |-> "num", tenths |-> 5]
                           ELSE r.confidence
             horizon == IF r.horizon = "absent" THEN "same_day" ELSE r.horizon
         IN  IF ConfidenceRejected(confidence)
             THEN ParseRaises("Invalid confidence value")
             ELSE IF horizon \notin Range(valid_horizons)
             THEN ParseRaises("Invalid horizon value")
             ELSE [kind |-> "returned", sentiment |-> r.sentiment.value,
                   confidence |-> confidence, horizon |-> horizon,
                   rationale |-> Truncate(r.rationale)]

NotParsed == [kind |-> "none"]

\* one call of _parse_model_response
ParseResponse ==
    /\ parsed = NotParsed
    /\ parsed' = parse_model_response(response)
    /\ UNCHANGED <<response, notParse>>

ParseStart ==
    /\ response \in Responses
    /\ parsed = NotParsed

ParseIdle ==
    /\ response = [json |-> FALSE]
    /\ parsed = [kind |-> "off"]

ParseStep == ParseResponse

(***************************************************************************)
(* SentimentAnalyzer._aggregate_sentiments                                 *)
(***************************************************************************)
\* the results given to _aggregate_sentiments: sentiment and horizon of each
VoteItems == [sentiment : {-1, 0, 1}, horizon : Range(valid_horizons)]

RECURSIVE CounterKeys(_, _)
\* Counter(horizons): its keys, in the order of their first occurrence
CounterKeys(vs, seen) ==
    IF vs = <<>> THEN <<>>
    ELSE IF Head(vs).horizon \in seen THEN CounterKeys(Tail(vs), seen)
    ELSE <<Head(vs).horizon>> \o CounterKeys(Tail(vs), seen \cup {Head(vs).horizon})

\* horizon_counts[h]
CountOf(h, vs) == Cardinality({i \in DOMAIN vs : vs[i].horizon = h})

ReplacesOnTie(c, best) == c >= best
\* most_common(1) is max(items, key=count): a later item replaces the
\* running maximum only when its count is strictly greater
Replaces(c, best) == c > best

RECURSIVE MaxLoop(_, _, _)
MaxLoop(keys, vs, best) ==
    IF keys = <<>> THEN best
    ELSE MaxLoop(Tail(keys), vs,
                 IF Replaces(CountOf(Head(keys), vs), CountOf(best, vs))
                 THEN Head(keys) ELSE best)

\* horizon_counts.most_common(1)[0][0]
most_common(vs) ==
    LET keys == CounterKeys(vs, {}) IN MaxLoop(Tail(keys), vs, Head(keys))

\* _aggregate_sentiments(results), lines 372-421
aggregate_sentiments(vs) ==
    IF vs = <<>> THEN [kind |-> "None"]
    ELSE [kind |-> "dict", majority_vote |-> VoteOf(vs),
          horizon_vote |-> most_common(vs), num_models |-> Len(vs)]

NotAggregated == [kind |-> "none"]

\* one call of _aggregate_sentiments
Aggregate ==
    /\ aggregate = NotAggregated
    /\ aggregate' = aggregate_sentiments(votes)
    /\ UNCHANGED <<votes, notAggregate>>

AggregateStart ==
    /\ votes \in SeqsUpTo(VoteItems, MaxVotes)
    /\ aggregate = NotAggregated

AggregateIdle ==
    /\ votes = <<>>
    /\ aggregate = [kind |-> "off"]

AggregateStep == Aggregate

(***************************************************************************)
(* The specifications                                                      *)
(***************************************************************************)
GateIdle ==
    /\ now = 0
    /\ calls = <<>>
    /\ gateLock = 0
    /\ pc = <<>>
    /\ wake = <<>>
    /\ depth = <<>>
    /\ completions = <<>>

ScoreIdle ==
    /\ spc = <<>>
    /\ sitem = <<>>
    /\ sresult = <<>>
    /\ sentiment_aggregates = {}
    /\ sentiment_analyses = {}

CleanupIdle ==
    /\ kpc = "idle"
    /\ utcnow = 0
    /\ max_age_hours = 0
    /\ setting_hours = 0
    /\ stored = {}
    /\ stored_before = {}
    /\ expired_rows = {}
    /\ cleanup = [kind |-> "off"]

GateInit ==
    /\ GateStart /\ DedupeIdle /\ IngestIdle /\ ScoreIdle
    /\ AnalyzeIdle /\ FetchIdle
    /\ ParseIdle /\ AggregateIdle /\ CleanupIdle
GateSpec == GateInit /\ [][GateStep]_vars

DedupeInit ==
    /\ DedupeStart /\ GateIdle /\ IngestIdle /\ ScoreIdle
    /\ AnalyzeIdle /\ FetchIdle
    /\ ParseIdle /\ AggregateIdle /\ CleanupIdle
DedupeSpec == DedupeInit /\ [][DedupeStep]_vars

DedupeWideInit ==
    /\ DedupeWideStart /\ GateIdle /\ IngestIdle /\ ScoreIdle
    /\ AnalyzeIdle /\ FetchIdle
    /\ ParseIdle /\ AggregateIdle /\ CleanupIdle
DedupeWideSpec == DedupeWideInit /\ [][DedupeStep]_vars

IngestInit ==
    /\ IngestStart /\ IngestInputs /\ GateIdle /\ DedupeIdle /\ ScoreIdle
    /\ AnalyzeIdle /\ FetchIdle
    /\ ParseIdle /\ AggregateIdle /\ CleanupIdle
IngestSpec == IngestInit /\ [][IngestStep]_vars

TwiceInit ==
    /\ IngestStart /\ TwiceInputs /\ GateIdle /\ DedupeIdle /\ ScoreIdle
    /\ AnalyzeIdle /\ FetchIdle
    /\ ParseIdle /\ AggregateIdle /\ CleanupIdle
TwiceSpec == TwiceInit /\ [][IngestStep]_vars

ScoreInit ==
    /\ ScoreStart /\ GateIdle /\ DedupeIdle /\ IngestIdle
    /\ AnalyzeIdle /\ FetchIdle
    /\ ParseIdle /\ AggregateIdle /\ CleanupIdle
ScoreSpec == ScoreInit /\ [][ScoreStep]_vars

AnalyzeInit ==
    /\ AnalyzeStart /\ GateIdle /\ DedupeIdle /\ IngestIdle /\ ScoreIdle
    /\ FetchIdle
    /\ ParseIdle /\ AggregateIdle /\ CleanupIdle
AnalyzeSpec == AnalyzeInit /\ [][AnalyzeStep]_vars

FetchInit ==
    /\ FetchStart /\ GateIdle /\ DedupeIdle /\ IngestIdle /\ ScoreIdle
    /\ AnalyzeIdle
    /\ ParseIdle /\ AggregateIdle /\ CleanupIdle
FetchSpec == FetchInit /\ [][FetchStep]_vars

ParseInit ==
    /\ ParseStart /\ GateIdle /\ DedupeIdle /\ IngestIdle /\ ScoreIdle
    /\ AnalyzeIdle /\ FetchIdle /\ AggregateIdle /\ CleanupIdle
ParseSpec == ParseInit /\ [][ParseStep]_vars

AggregateInit ==
    /\ AggregateStart /\ GateIdle /\ DedupeIdle /\ IngestIdle /\ ScoreIdle
    /\ AnalyzeIdle /\ FetchIdle /\ ParseIdle /\ CleanupIdle
AggregateSpec == AggregateInit /\ [][AggregateStep]_vars

(***************************************************************************)
(* C1: at most rate_limit acquire() calls complete within any rolling      *)
(* interval of window seconds, for any number of concurrent callers.       *)
(***************************************************************************)
CompletedIn(t) ==
    {i \in DOMAIN completions : completions[i] >= t /\ completions[i] < t + Window}

C1_RateBound == \A t \in 0..MaxTime : Cardinality(CompletedIn(t)) <= RateLimit

\* The limit was reached (a caller is suspended) and calls of a later window
\* were admitted after older ones left the window.
C1_Witness ==
    /\ Len(completions) > RateLimit
    /\ \E c \in Callers : pc[c] = "sleep"

(***************************************************************************)
(* C2: every call to acquire() eventually returns; no caller is blocked    *)
(* forever.  A caller waiting for the gate while the holder of the gate is *)
(* itself waiting for the gate can never be released by any step, so the   *)
(* claim requires that no such state is reachable.                         *)
(***************************************************************************)
C2_NoCallerBlockedForever ==
    \A c \in Callers :
        pc[c] = "lock" => (gateLock = 0 \/ pc[gateLock] # "lock")

(***************************************************************************)
(* Connected components of the link relation, computed independently of    *)
(* the code under check.                                                   *)
(***************************************************************************)
Linked(i, j) ==
    /\ i # j
    /\ headlines[i].ticker = headlines[j].ticker
    /\ score[IF i < j THEN <<i, j>> ELSE <<j, i>>] >= Threshold

RECURSIVE Closure(_)
Closure(S) ==
    LET T == S \cup {j \in DOMAIN headlines : \E i \in S : Linked(i, j)}
    IN  IF T = S THEN S ELSE Closure(T)

Components == {Closure({i}) : i \in DOMAIN headlines}

GroupSets == {Range(merged_groups[k]) : k \in DOMAIN merged_groups}

(***************************************************************************)
(* C3: the groups deduplicate() builds are the connected components of the *)
(* link relation (items joined by a chain of linked pairs of any length    *)
(* share a group), and one representative is output per component.         *)
(***************************************************************************)
C3_GroupsAreComponents ==
    /\ dstage \in {"grouped", "done"} => GroupSets = Components
    /\ dstage = "done" => Len(deduplicated) = Cardinality(Components)

(***************************************************************************)
(* C4: the groups of one batch partition the batch: every input item is in *)
(* exactly one group.                                                      *)
(***************************************************************************)
C4_GroupsPartition ==
    dstage \in {"grouped", "done"} =>
        \A i \in DOMAIN headlines :
            Cardinality({k \in DOMAIN merged_groups :
                            i \in Range(merged_groups[k])}) = 1

(***************************************************************************)
(* Ingestion: what the claims speak of                                     *)
(***************************************************************************)
\* the hashes of the representatives deduplicate() keeps of a portfolio's
\* payload: the items a pass can newly persist
PayloadHashes(s) ==
    LET d == deduped_payload(payload[s])
    IN  {d[k].headline_hash : k \in DOMAIN d}

\* the pass (task 1) of a call that ingested a single portfolio succeeded
PassSucceeded(r) ==
    /\ r.status = "completed"
    /\ Len(r.details) = 1
    /\ r.details[1].status = "success"

\* the second call of the plan is under way
SecondRunning == Len(results) = 1 /\ ipc = "running"

(***************************************************************************)
(* C5: ingesting the same source twice in sequence with an unchanged       *)
(* upstream payload persists every new item on the first run and exactly   *)
(* 0 items on the second run, all hashes of the second run being already   *)
(* known to persistence (the second run builds no new row).                *)
(***************************************************************************)
C5_SecondRunPersistsNothing ==
    (Len(results) >= 1 /\ PassSucceeded(results[1])) =>
        LET s == results[1].portfolio_ids[1]
        IN  /\ results[1].persisted = Cardinality(PayloadHashes(s))
            /\ ExistingHashes(db) = PayloadHashes(s)
            /\ Cardinality(db) = Cardinality(PayloadHashes(s))
            /\ SecondRunning => new_instances[1] = <<>>
            /\ Len(results) = 2 => results[2].persisted = 0

\* both runs succeeded: the first persisted two items, the second found
\* both of them known
C5_Witness ==
    /\ Len(results) = 2
    /\ PassSucceeded(results[1])
    /\ results[1].persisted = 2
    /\ PassSucceeded(results[2])
    /\ results[2].details[1].duplicates = 2
    /\ results[2].persisted = 0

(***************************************************************************)
(* C6: after any interleaving of pipeline passes, persistence never holds  *)
(* two items with the same content hash: a batch that would add an         *)
(* already-persisted hash is rejected, not stored.                         *)
(***************************************************************************)
C6_HashUnique ==
    \A r1, r2 \in db : r1.headline_hash = r2.headline_hash => r1 = r2

\* a pass built a row for a hash that another pass persisted meanwhile, and
\* its commit was rejected
C6_Witness ==
    \E w \in Workers :
        /\ outcome[w] = Raised
        /\ new_instances[w] # <<>>
        /\ \E row \in db :
              /\ row.headline_hash = new_instances[w][1].headline_hash
              /\ row.id[2] # w

(***************************************************************************)
(* C7: if the lock attempt for a source reports that the lock was not      *)
(* acquired, the pass never invokes the fetch for that source and its      *)
(* result status is "skipped".                                             *)
(***************************************************************************)
C7_NoFetchWithoutLock ==
    \A w \in Workers :
        (cm = "redis" /\ wpc[w] \notin {"queued", "lock"} /\ ~lock_acquired[w]) =>
            /\ ~fetched[w]
            /\ outcome[w].kind = "returned"
            /\ outcome[w].result.status = "skipped"

\* contention: one pass holds the lock of a portfolio and is fetching, a
\* second pass for the same portfolio was refused the lock
C7_Witness ==
    \E w, v \in Workers :
        /\ cm = "redis"
        /\ targets[w] = targets[v]
        /\ wpc[v] = "fetching" /\ lock_acquired[v]
        /\ targets[v] \in redisLocks
        /\ wpc[w] = "finished" /\ ~lock_acquired[w]

(***************************************************************************)
(* C8: a Consensus (sentiment aggregate) exists at most once per item      *)
(* after any interleaving of scoring runs for the same item: the first run *)
(* to persist creates it, a later run's persist is skipped or rejected,    *)
(* and the stored Consensus is never modified afterwards.                  *)
(***************************************************************************)
AtMostOneAggregate(table) ==
    \A a, b \in table : a.headline_id = b.headline_id => a = b

PassErrored(w) ==
    \/ outcome[w] = Raised
    \/ outcome[w].kind = "returned" /\ outcome[w].result.status = "error"

C9_StatusReflectsErrors ==
    (ipc = "idle" /\ Len(results) = 1 /\ Workers # {}) =>
        /\ results[1].status \in {"completed", "partial"}
        /\ results[1].status = "completed" <=> ~ \E w \in Workers : PassErrored(w)

(***************************************************************************)
(* C10: with ingestion enabled and at least one source resolved, the       *)
(* ingest call never raises because of a failed pipeline pass: it returns  *)
(* a result with a status and an error tally.                              *)
(***************************************************************************)
C10_NeverRaises ==
    /\ overall.status # "raised"
    /\ (ipc = "idle" /\ Len(results) = 1 /\ Workers # {}) =>
          /\ results[1].status \in {"completed", "partial"}
          /\ results[1].errors =
                Cardinality({w \in Workers : outcome[w] = Raised})
          /\ Len(results[1].details) + results[1].errors = Len(targets)

\* a call returned although one pass failed to persist and another failed
\* to fetch
C10_Witness ==
    /\ ipc = "idle" /\ Len(results) = 1
    /\ \E w, v \in Workers :
          /\ outcome[w] = Raised
          /\ outcome[v].kind = "returned" /\ outcome[v].result.status = "error"

(***************************************************************************)
(* C11: when one source's pipeline pass fails (fetch failure or            *)
(* persistence failure), every sibling pass scheduled in the same ingest   *)
(* call still runs to its own completion, and the result it returns is in  *)
(* the overall result.                                                     *)
(***************************************************************************)
InDetails(ov, r) == \E k \in DOMAIN ov.details : ov.details[k] = r

C11_SiblingsComplete ==
    (ipc = "idle" /\ Len(results) = 1 /\ \E w \in Workers : PassErrored(w)) =>
        \A v \in Workers :
            /\ wpc[v] = "collected"
            /\ outcome[v] # NoOutcome
            /\ outcome[v].kind = "returned" => InDetails(results[1], outcome[v].result)

\* the first pass failed to persist; its sibling, scheduled in the same call,
\* persisted afterwards and its result was collected after the failure
C11_Witness ==
    /\ ipc = "idle" /\ Len(results) = 1
    /\ \E w, v \in Workers :
          /\ outcome[w] = Raised
          /\ outcome[v].kind = "returned"
          /\ outcome[v].result.status = "success"
          /\ outcome[v].result.persisted = 1
          /\ InDetails(results[1], outcome[v].result)

(***************************************************************************)
(* C12: for every source id passed to ingest, the returned per-source      *)
(* results contain an entry carrying that source id and its status, a      *)
(* source whose persist step failed included.                              *)
(***************************************************************************)
C12_EntryPerSource ==
    (ipc = "idle" /\ Len(results) = 1 /\ Workers # {}) =>
        \A w \in Workers :
            \E k \in DOMAIN results[1].details :
                results[1].details[k].portfolio_id = targets[w]

(***************************************************************************)
(* C13: a pipeline pass that acquired the lock of its source always        *)
(* releases it before the pass ends, on every path: once such a pass has   *)
(* ended, the lock key it set is gone (unless a later pass of the same     *)
(* source has acquired the lock anew).                                     *)
(***************************************************************************)
PassEnded(w) == wpc[w] \in {"finished", "collected"}

C13_LockReleasedAtEnd ==
    \A w \in Workers :
        (/\ lock_acquired[w]
         /\ PassEnded(w)
         /\ ~ \E v \in Workers \ {w} : targets[v] = targets[w] /\ lock_acquired[v])
            => targets[w] \notin redisLocks

(***************************************************************************)
(* C14: within one pass the steps run in the order lock acquire, fetch,    *)
(* dedupe, existing-hash lookup, persist, cache invalidation, lock         *)
(* release: a pass that acquired the lock, and is the only pass of its     *)
(* source, still holds the lock while it dedupes, looks up and persists.   *)
(***************************************************************************)
C14_LockHeldUntilPersisted ==
    \A w \in Workers :
        (/\ lock_acquired[w]
         /\ wpc[w] \in {"lookup", "commit"}
         /\ ~ \E v \in Workers \ {w} : targets[v] = targets[w])
            => targets[w] \in redisLocks

(***************************************************************************)
(* One ingest call over more portfolios than the semaphore has permits.    *)
(***************************************************************************)
\* the headline the upstream has for the busy portfolio
TwoHeadlineBatch ==
    [items |-> <<[ticker |-> "AAPL", headline_hash |-> "h1",
                  is_primary_source |-> FALSE, headline_timestamp |-> 1,
                  has_duplicates |-> FALSE, duplicate_count |-> 0],
                 [ticker |-> "MSFT", headline_hash |-> "h2",
                  is_primary_source |-> FALSE, headline_timestamp |-> 1,
                  has_duplicates |-> FALSE, duplicate_count |-> 0]>>,
     score |-> (<<1, 2>> :> 84)]

OneHeadlineBatch ==
    [items |-> <<[ticker |-> "AAPL", headline_hash |-> "h1",
                  is_primary_source |-> FALSE, headline_timestamp |-> 1,
                  has_duplicates |-> FALSE, duplicate_count |-> 0]>>,
     score |-> <<>>]

\* ingest_portfolios(ids) with MaxFanOut ids: the first is portfolio 1, which
\* has one headline upstream, the others are portfolio 2, which has none (the
\* caller may repeat an id; the passes of portfolio 2 contend for its lock)
FanOutInputs ==
    /\ cm \in {"none", "redis"}
    /\ enabled = TRUE
    /\ configured = <<>>
    /\ plan = << [i \in 1..MaxFanOut |-> IF i = 1 THEN 1 ELSE 2] >>
    /\ payload = [s \in Sources |-> IF s = 1 THEN OneHeadlineBatch ELSE EmptyBatch]

FanOutInit ==
    /\ IngestStart /\ FanOutInputs /\ GateIdle /\ DedupeIdle /\ ScoreIdle
    /\ AnalyzeIdle /\ FetchIdle
    /\ ParseIdle /\ AggregateIdle /\ CleanupIdle
FanOutSpec == FanOutInit /\ [][IngestStep]_vars

\* ingest_portfolios([1, 2]): portfolio 1 has two unrelated headlines
\* upstream, portfolio 2 has one, which is also the first of portfolio 1
FaultInputs ==
    /\ cm \in {"none", "redis"}
    /\ enabled = TRUE
    /\ configured = <<>>
    /\ plan = << <<1, 2>> >>
    /\ payload = [s \in Sources |-> IF s = 1 THEN TwoHeadlineBatch
                                              ELSE OneHeadlineBatch]

FaultInit ==
    /\ IngestStart /\ FaultInputs /\ GateIdle /\ DedupeIdle /\ ScoreIdle
    /\ AnalyzeIdle /\ FetchIdle
    /\ ParseIdle /\ AggregateIdle /\ CleanupIdle
FaultSpec == FaultInit /\ [][FaultStep]_vars

(***************************************************************************)
(* C15: during one ingest call at most 3 source pipeline passes are in     *)
(* progress at the same time, for any number of source ids and any         *)
(* scheduling order.                                                       *)
(***************************************************************************)
InProgress ==
    {w \in Workers :
        wpc[w] \in {"lock", "fetching", "lookup", "commit", "invalidate"}}

C15_AtMostThreePasses ==
    /\ Cardinality(InProgress) <= DEFAULT_CONCURRENCY
    /\ ipc = "running" => semaphore = DEFAULT_CONCURRENCY - Cardinality(InProgress)

\* three passes are in progress and a fourth waits for a permit
C15_Witness ==
    /\ Cardinality(InProgress) = DEFAULT_CONCURRENCY
    /\ \E w \in Workers : wpc[w] = "queued"

(***************************************************************************)
(* Scoring one item: what the claims speak of                              *)
(***************************************************************************)
\* the entries of a list of votes or errors that name model m
EntriesOf(entries, m) == {i \in DOMAIN entries : entries[i].model = m}

\* the tasks of model m that ended in state st
TasksIn(m, st) == {t \in Tasks : models[t] = m /\ tpc[t] = st}

(***************************************************************************)
(* C16: when analyze_headline succeeds with N backends, the returned votes *)
(* plus the reported errors number N: each backend that raises or returns  *)
(* an unparseable or invalid response yields exactly one error entry and   *)
(* removes no other backend's vote.                                        *)
(***************************************************************************)
C16_VotesPlusErrors ==
    apc = "returned" =>
        /\ Len(analysis.model_results) + Len(analysis.errors) = Len(models)
        /\ \A m \in Models :
              /\ Cardinality(EntriesOf(analysis.model_results, m))
                    = Cardinality(TasksIn(m, "valid"))
              /\ Cardinality(EntriesOf(analysis.errors, m))
                    = Cardinality(TasksIn(m, "failed"))

\* three backends: one raised on both of its attempts, two gave valid votes
C16_Witness ==
    /\ apc = "returned"
    /\ Len(models) = 3
    /\ Len(analysis.model_results) = 2
    /\ Len(analysis.errors) = 1
    /\ \E t \in Tasks : tpc[t] = "failed" /\ attempts[t] = MaxCallAttempts

(***************************************************************************)
(* C17: analyze_headline with a non-empty backend list succeeds if and     *)
(* only if at least one backend returns a valid vote; when every backend   *)
(* fails the call fails and carries no aggregate.                          *)
(***************************************************************************)
C17_SucceedsIffOneVote ==
    (apc \in {"returned", "raised"} /\ models # <<>>) =>
        /\ apc = "returned" <=> \E t \in Tasks : tpc[t] = "valid"
        /\ apc = "returned" => analysis.num_models >= 1
        /\ apc = "raised" =>
              /\ analysis.kind = "raised"
              /\ "majority_vote" \notin DOMAIN analysis

\* two backends failed in different ways (an invalid response, an exception
\* on every attempt) and the call raised
C17_Witness ==
    /\ apc = "raised"
    /\ \E t, u \in Tasks :
          /\ tpc[t] = "failed" /\ attempts[t] = 1
          /\ tpc[u] = "failed" /\ attempts[u] = MaxCallAttempts
    /\ \A t \in Tasks : tpc[t] = "failed"

(***************************************************************************)
(* C18: analyze_headline called with an empty backend list fails with the  *)
(* no-models error before any backend call or rate-limiter acquire is      *)
(* issued.                                                                 *)
(***************************************************************************)
C18_EmptyListFails ==
    (arg_models = <<>> /\ apc # "idle") =>
        /\ apc = "raised"
        /\ analysis.error = "No models selected for analysis"
        /\ models = <<>>

(***************************************************************************)
(* C19: every outbound network call attempt is preceded by its own         *)
(* completed acquire() on the rate limiter of its resource, the secondary  *)
(* retrieval path of a source fetch included.                              *)
(***************************************************************************)
IsGet(e) == e \in {"get_export", "get_scrape"}

C19_EveryCallAcquires ==
    \A i \in DOMAIN fetch_log :
        IsGet(fetch_log[i]) => (i > 1 /\ fetch_log[i - 1] = "acquire")

(***************************************************************************)
(* C20: fetch_portfolio_headlines makes a further attempt only after a     *)
(* transient failure; a permanent failure (HTTP 401/403) is surfaced after *)
(* a single attempt and never retried.                                     *)
(***************************************************************************)
C20_RetryOnlyAfterTransient ==
    \A i \in DOMAIN fetch_log :
        (fetch_log[i] = "acquire" /\ i > 1) => fetch_log[i - 1] = "transient"

(***************************************************************************)
(* C21: one fetch_portfolio_headlines call attempts the source at most 3   *)
(* times; when every attempt fails transiently the call ends with an       *)
(* error, which the pipeline pass records as status "error".               *)
(***************************************************************************)
AcquiresLogged == Cardinality({i \in DOMAIN fetch_log : fetch_log[i] = "acquire"})

OnlyTransientFailures ==
    \A i \in DOMAIN fetch_log : fetch_log[i] # "permanent"

C21_AtMostThreeAttempts ==
    /\ fattempt <= MaxFetchAttempts
    /\ AcquiresLogged <= MaxFetchAttempts
    /\ fpc = "acquire" => AcquiresLogged < MaxFetchAttempts
    /\ (/\ fattempt = MaxFetchAttempts
        /\ fpc \notin {"acquire", "export", "scrape"}
        /\ fetch_log[Len(fetch_log)] = "transient"
        /\ OnlyTransientFailures)
          => /\ fpc = "raised"
             /\ StatusOnFetch(fpc) = "error"

\* three attempts were made, each failed with a transient error on the
\* export and on the fallback, and the call raised
C21_Witness ==
    /\ fpc = "raised"
    /\ AcquiresLogged = MaxFetchAttempts
    /\ OnlyTransientFailures
    /\ Cardinality({i \in DOMAIN fetch_log : fetch_log[i] = "transient"})
          = 2 * MaxFetchAttempts

(***************************************************************************)
(* C22: within one analyze_headline call, a backend call that fails with   *)
(* an authorization error is not retried: that backend is called exactly   *)
(* once; only a transient failure leads to a second attempt, and no        *)
(* backend is called more than 2 times.                                    *)
(***************************************************************************)
C22_NoRetryAfterAuthError ==
    \A t \in DOMAIN attempts :
        /\ attempts[t] <= MaxCallAttempts
        /\ \A i \in DOMAIN retried_errors[t] : retried_errors[t][i] = "transient"
        /\ attempts[t] > 1 => retried_errors[t] # <<>>

(***************************************************************************)
(* C23: within one analyze_headline call the aggregation runs only after   *)
(* every backend call has settled (returned a vote or failed), and the     *)
(* aggregate is computed over exactly the votes of the backends that       *)
(* succeeded, whatever the order in which the calls completed.             *)
(***************************************************************************)
SucceededTasks == {t \in Tasks : tpc[t] = "valid"}

\* the sign of (votes for 1) - (votes for -1) among the succeeded tasks
SignOfSucceeded ==
    LET up == Cardinality({t \in SucceededTasks : Sentiment(models[t]) = 1})
        down == Cardinality({t \in SucceededTasks : Sentiment(models[t]) = -1})
    IN  IF up > down THEN 1 ELSE IF up < down THEN -1 ELSE 0

C23_AggregatesSettledVotes ==
    /\ (apc \in {"returned", "raised"} /\ models # <<>>) =>
          \A t \in Tasks : tpc[t] \in {"valid", "failed"}
    /\ apc = "returned" =>
          /\ analysis.num_models = Cardinality(SucceededTasks)
          /\ Len(analysis.model_results) = Cardinality(SucceededTasks)
          /\ \A t \in SucceededTasks :
                \E i \in DOMAIN analysis.model_results :
                    /\ analysis.model_results[i].model = models[t]
                    /\ i = Cardinality({u \in SucceededTasks : u <= t})
          /\ analysis.majority_vote = SignOfSucceeded

\* three backends, the first one settled last (after a retry) and failed;
\* the two others voted 1 and -1, so the aggregate over the votes is 0
C23_Witness ==
    /\ apc = "returned"
    /\ Len(models) = 3
    /\ tpc[1] = "failed" /\ retried_errors[1] # <<>>
    /\ attempts[2] = 1 /\ attempts[3] = 1
    /\ Sentiment(models[2]) # Sentiment(models[3])
    /\ Cardinality(SucceededTasks) = 2
    /\ analysis.majority_vote = 0

(***************************************************************************)
(* C24: every vote returned by _parse_model_response has sentiment in      *)
(* {-1,0,1}, confidence in [0,1], horizon among valid_horizons and a       *)
(* rationale of at most 275 characters (a longer one is cut to 275         *)
(* characters ending in an ellipsis); a response that violates the         *)
(* sentiment, confidence or horizon rule raises and yields no vote.        *)
(***************************************************************************)
\* the response gives a confidence that is not a number of [0,1]
BadConfidence(c) ==
    c.kind \in {"nan", "text"} \/ (c.kind = "num" /\ (c.tenths < 0 \/ c.tenths > 10))

C24_VotesWellFormed ==
    /\ parsed.kind = "returned" =>
          /\ parsed.sentiment \in {-1, 0, 1}
          /\ parsed.confidence.kind = "num"
          /\ parsed.confidence.tenths \in 0..10
          /\ parsed.horizon \in Range(valid_horizons)
          /\ parsed.rationale.len <= RationaleCap
          /\ response.rationale.len > RationaleCap =>
                /\ parsed.rationale.len = RationaleCap
                /\ parsed.rationale.ellipsis
    /\ (/\ parsed # NotParsed
        /\ response.json
        /\ \/ ~SentimentOk(response.sentiment)
           \/ BadConfidence(response.confidence)
           \/ response.horizon \notin Range(valid_horizons) \cup {"absent"})
          => parsed.kind = "raised"

(***************************************************************************)
(* C25: for every non-empty list of votes _aggregate_sentiments returns    *)
(* as majority_vote the sign of the sum of the sentiments: 1 when the sum  *)
(* is positive, -1 when negative, 0 when it is 0.                          *)
(***************************************************************************)
VotesFor(d) == Cardinality({i \in DOMAIN votes : votes[i].sentiment = d})

C25_MajorityIsSignOfSum ==
    (aggregate # NotAggregated /\ votes # <<>>) =>
        /\ aggregate.kind = "dict"
        /\ VotesFor(1) > VotesFor(-1) => aggregate.majority_vote = 1
        /\ VotesFor(1) < VotesFor(-1) => aggregate.majority_vote = -1
        /\ VotesFor(1) = VotesFor(-1) => aggregate.majority_vote = 0

\* votes [1, 1, -1] give 1
C25_Witness ==
    /\ Len(votes) = 3
    /\ votes[1].sentiment = 1 /\ votes[2].sentiment = 1
    /\ votes[3].sentiment = -1
    /\ aggregate.kind = "dict"
    /\ aggregate.majority_vote = 1

(***************************************************************************)
(* C26: for every non-empty list of votes _aggregate_sentiments returns    *)
(* as horizon_vote the horizon with the highest count among the votes      *)
(* and, when several horizons share the highest count, the one whose first *)
(* occurrence comes earliest in the list.                                  *)
(***************************************************************************)
HorizonCount(h) == Cardinality({i \in DOMAIN votes : votes[i].horizon = h})

FirstOccurrence(h) ==
    CHOOSE i \in DOMAIN votes :
        /\ votes[i].horizon = h
        /\ \A j \in DOMAIN votes : votes[j].horizon = h => i <= j

C26_ModalHorizonFirstOnTie ==
    (aggregate # NotAggregated /\ votes # <<>>) =>
        /\ \E i \in DOMAIN votes : votes[i].horizon = aggregate.horizon_vote
        /\ \A j \in DOMAIN votes :
              LET h == votes[j].horizon
                  w == aggregate.horizon_vote
              IN  /\ HorizonCount(h) <= HorizonCount(w)
                  /\ (HorizonCount(h) = HorizonCount(w) /\ h # w)
                        => FirstOccurrence(w) < FirstOccurrence(h)

\* three votes with three different horizons, the first of them the last
\* entry of valid_horizons: the first vote's horizon is returned
C26_Witness ==
    /\ Len(votes) = 3
    /\ votes[1].horizon = "24h"
    /\ votes[2].horizon = "<1h"
    /\ votes[3].horizon = "same_day"
    /\ aggregate.kind = "dict"
    /\ aggregate.horizon_vote = "24h"

(***************************************************************************)
(* C27: from each group deduplicate() outputs exactly one representative,  *)
(* a member of the group: a primary-source item if the group has one, and  *)
(* among the items of equal authority the one with the earliest timestamp. *)
(***************************************************************************)
C27_OneRepresentativePerGroup ==
    dstage = "done" =>
        /\ Len(deduplicated) = Len(merged_groups)
        /\ \A k \in DOMAIN merged_groups :
              LET group == Range(merged_groups[k])
                  best == headlines[deduplicated[k]]
              IN  /\ deduplicated[k] \in group
                  /\ (\E i \in group : headlines[i].is_primary_source)
                        => best.is_primary_source
                  /\ \A i \in group :
                        headlines[i].is_primary_source = best.is_primary_source
                            => best.headline_timestamp
                                  <= headlines[i].headline_timestamp

\* one group of three: the earliest item is not a primary source, the two
\* others are, and the earlier of those two is the representative
C27_Witness ==
    /\ dstage = "done"
    /\ merged_groups = << <<1, 2, 3>> >>
    /\ ~headlines[1].is_primary_source /\ headlines[1].headline_timestamp = 1
    /\ headlines[2].is_primary_source /\ headlines[2].headline_timestamp = 2
    /\ headlines[3].is_primary_source /\ headlines[3].headline_timestamp = 1
    /\ deduplicated = <<3>>

(***************************************************************************)
(* C28: for every input batch deduplicate() returns no more items than it  *)
(* was given, and every output representative of a group of more than one  *)
(* item carries duplicate_count equal to the size of its group minus 1.    *)
(***************************************************************************)
C28_CountIsGroupSizeLessOne ==
    dstage = "done" =>
        /\ Len(deduplicated) <= Len(headlines)
        /\ \A k \in DOMAIN merged_groups :
              Len(merged_groups[k]) > 1 =>
                  /\ headlines[deduplicated[k]].has_duplicates
                  /\ headlines[deduplicated[k]].duplicate_count
                        = Len(merged_groups[k]) - 1

(***************************************************************************)
(* C29: deduplicate() never puts into one group two items that are not     *)
(* connected by a chain of linked pairs: two items with different tickers  *)
(* are never merged, whatever their similarity, and an item linked to      *)
(* nothing is a group of its own and is output as its own representative.  *)
(***************************************************************************)
Unlinked(i) == \A j \in DOMAIN headlines : ~Linked(i, j)

C29_GroupsOnlyJoinLinkedItems ==
    /\ dstage \in {"grouped", "done"} =>
          /\ \A k \in DOMAIN merged_groups :
                LET group == Range(merged_groups[k])
                    first == merged_groups[k][1]
                IN  /\ group \subseteq Closure({first})
                    /\ \A a \in group :
                          headlines[a].ticker = headlines[first].ticker
          /\ \A i \in DOMAIN headlines :
                Unlinked(i) =>
                    /\ \E k \in DOMAIN merged_groups : merged_groups[k] = <<i>>
                    /\ \A k \in DOMAIN merged_groups :
                          i \in Range(merged_groups[k]) => merged_groups[k] = <<i>>
    /\ dstage = "done" =>
          \A i \in DOMAIN headlines :
              Unlinked(i) => \E k \in DOMAIN deduplicated : deduplicated[k] = i

\* three items whose texts are all similar; the third has another ticker:
\* the first two are merged, the third stays alone and is output
C29_Witness ==
    /\ dstage = "done"
    /\ Len(headlines) = 3
    /\ \A p \in DOMAIN score : score[p] >= Threshold
    /\ headlines[1].ticker = headlines[2].ticker
    /\ headlines[3].ticker # headlines[1].ticker
    /\ merged_groups = << <<1, 2>>, <<3>> >>
    /\ deduplicated[2] = 3

(***************************************************************************)
(* C30: deduplicate() is pure: it leaves every item of the input list      *)
(* unchanged, no field of an input item is added or modified.              *)
(***************************************************************************)
C30_InputUnchanged ==
    dstage = "done" =>
        \A i \in DOMAIN headlines :
            /\ ~headlines[i].has_duplicates
            /\ headlines[i].duplicate_count = 0

(***************************************************************************)
(* C31: with the ingestion flag disabled ingest_portfolios returns status  *)
(* "disabled" and has no side effect: no lock is attempted, no fetch is    *)
(* made, nothing is persisted and no cache entry is invalidated; with the  *)
(* flag enabled and no portfolio resolved it returns "skipped", likewise   *)
(* without any of those effects.                                           *)
(***************************************************************************)
\* no pass was started, no lock key set, no row stored, no cache key removed
NoSideEffect ==
    /\ targets = <<>> /\ fetched = <<>>
    /\ redisLocks = {} /\ lock_owner = [s \in Sources |-> NoOwner]
    /\ db = {}
    /\ cache = CacheKeys

C31_DisabledOrSkippedNoEffect ==
    /\ ~enabled => (ipc = "idle" /\ NoSideEffect)
    /\ \A k \in DOMAIN results :
          /\ ~enabled => results[k].status = "disabled"
          /\ (enabled /\ results[k].portfolio_ids = <<>>)
                => results[k].status = "skipped"
          /\ results[k].status \in {"disabled", "skipped"}
                => (ipc = "idle" /\ NoSideEffect)

\* flag enabled, no ids passed and none configured, a cache manager with
\* redis at hand: the call returned "skipped"
C31_Witness ==
    /\ enabled /\ cm = "redis"
    /\ configured = <<>>
    /\ plan = <<>>
    /\ Len(results) = 1
    /\ results[1].status = "skipped"
    /\ NoSideEffect

(***************************************************************************)
(* C32: the persist step of a pass is all-or-nothing: if the pass is       *)
(* cancelled or the write fails before the batch commit, none of the       *)
(* batch's new rows is persisted; once the commit happened all of them     *)
(* are, and a later cancellation removes none.                             *)
(***************************************************************************)
\* the rows in the headlines table that pass w of the call added
RowsOf(w) == {row \in db : row.id[2] = w}

AllOrNothing ==
    \A w \in Workers :
        /\ Cardinality(RowsOf(w)) \in {0, Len(new_instances[w])}
        /\ wpc[w] \in {"queued", "lock", "fetching", "lookup", "commit"}
              => RowsOf(w) = {}
        /\ outcome[w] = Raised => RowsOf(w) = {}
        /\ (outcome[w].kind = "returned" /\ outcome[w].result.status = "success")
              => Cardinality(RowsOf(w)) = Len(new_instances[w])

C32_PersistAllOrNothing ==
    /\ []AllOrNothing
    /\ [][db \subseteq db']_vars

\* pass 1 committed its two rows and was cancelled afterwards, during the
\* invalidation: both rows are in the table
C32_Witness ==
    /\ Len(targets) = 2
    /\ outcome[1] = Cancelled
    /\ wpc[1] = "finished"
    /\ Len(new_instances[1]) = 2
    /\ Cardinality(RowsOf(1)) = 2

(***************************************************************************)
(* C33: after a pass has persisted new rows, the cache entries of every    *)
(* global pattern and the per-ticker keys of every ticker of those rows    *)
(* have been invalidated, the invalidation coming after the commit; a      *)
(* cache call that fails during the invalidation is not raised and does    *)
(* not change the result of the pass.                                      *)
(***************************************************************************)
PatternCall(p) == [prefix |-> p, ticker |-> "*"]

KeyCall(p, t) == [prefix |-> p, ticker |-> t]

\* pass w returned "success" with new rows
Persisted(w) ==
    /\ wpc[w] \in {"finished", "collected"}
    /\ outcome[w].kind = "returned"
    /\ outcome[w].result.status = "success"
    /\ outcome[w].result.persisted > 0

\* every entry is gone from the cache, or the call that deletes it raised
InvalidatedFor(w) ==
    /\ \A p \in CachePrefixes :
          \/ PatternCall(p) \in cache_failed
          \/ \A k \in cache : k.prefix # p
    /\ \A t \in TickersOf(new_instances[w]) :
          \A p \in {"returns:ticker", "analytics:summary"} :
              \/ KeyCall(p, t) \in cache_failed
              \/ KeyCall(p, t) \notin cache

\* a step that changes the cache ends the invalidation of a pass whose
\* commit, if it succeeded, has stored its rows; the step leaves the outcome
\* of the commit as it is unless the task is cancelled
InvalidationStep ==
    /\ cache' # cache =>
          \E w \in Workers :
              /\ wpc[w] = "invalidate" /\ wpc'[w] = "finished"
              /\ outcome[w].kind = "returned"
                    => Cardinality({row \in db : row.id[2] = w})
                          = Len(new_instances[w])
    /\ \A w \in Workers :
          (wpc[w] = "invalidate" /\ w \in DOMAIN wpc' /\ wpc'[w] = "finished")
              => (outcome'[w] = outcome[w] \/ outcome'[w] = Cancelled)

C33_CachesInvalidatedAfterCommit ==
    /\ [](cm = "redis" => \A w \in Workers : Persisted(w) => InvalidatedFor(w))
    /\ [][InvalidationStep]_vars

\* pass 1 stored its two rows; the delete_pattern("headlines:*") call
\* raised, the other calls removed their keys; the pass returned "success"
C33_Witness ==
    /\ cm = "redis"
    /\ Len(targets) = 2
    /\ Persisted(1)
    /\ outcome[1].result.persisted = 2
    /\ cache_failed = {PatternCall("headlines")}
    /\ cache = {k \in CacheKeys : k.prefix = "headlines"}

(***************************************************************************)
(* cleanup_expired_records                                                 *)
(***************************************************************************)
MaxStored == 2       \* rows in the headlines table when the call starts

\* retention_hours = max_age_hours or settings.max_headline_age_hours or 24
DefaultRetention == 24

CleanupClocks == {30}                       \* datetime.now(), in hours
RetentionArgs == {0, 1, 2}                  \* max_age_hours; 0: None or 0
RetentionSettings == {0, 3}                 \* 0: the attribute is unset
StoredStamps == {5, 6, 7, 26, 27, 28, 29}   \* headline_timestamp, in hours

StoredFields == [ticker : Tickers, headline_timestamp : StoredStamps]

\* the tables of up to MaxStored rows; id is the primary key
StoredTables ==
    UNION {{{[id |-> i, ticker |-> f[i].ticker,
              headline_timestamp |-> f[i].headline_timestamp] : i \in 1..n}
            : f \in [1..n -> StoredFields]} : n \in 0..MaxStored}

retention_hours ==
    IF max_age_hours # 0 THEN max_age_hours
    ELSE IF setting_hours # 0 THEN setting_hours
    ELSE DefaultRetention

cutoff == utcnow - retention_hours

ExpiredInclusive(row) == row.headline_timestamp <= cutoff
\* where(Headline.headline_timestamp < cutoff)
Expired(row) == row.headline_timestamp < cutoff

ids_to_delete == {row.id : row \in expired_rows}

affected_tickers == {row.ticker : row \in expired_rows}

\* select(Headline.id, Headline.ticker).where(...); rows = result.all()
CleanupSelect ==
    /\ kpc = "select"
    /\ expired_rows' = {[id |-> row.id, ticker |-> row.ticker] :
                            row \in {r \in stored : Expired(r)}}
    /\ kpc' = "delete"
    /\ UNCHANGED <<utcnow, max_age_hours, setting_hours, stored, stored_before,
                   cleanup, ingestVars, notCleanup>>

\* delete(Headline).where(Headline.id.in_(ids_to_delete)) and commit, or
\* rollback when nothing was selected
CleanupDelete ==
    /\ kpc = "delete"
    /\ stored' = {row \in stored : row.id \notin ids_to_delete}
    /\ kpc' = "invalidate"
    /\ UNCHANGED <<utcnow, max_age_hours, setting_hours, stored_before,
                   expired_rows, cleanup, ingestVars, notCleanup>>

\* the delete or the commit raises: the exception leaves the function
CleanupDeleteFails ==
    /\ kpc = "delete"
    /\ ids_to_delete # {}
    /\ kpc' = "raised"
    /\ cleanup' = [kind |-> "raised"]
    /\ UNCHANGED <<utcnow, max_age_hours, setting_hours, stored, stored_before,
                   expired_rows, ingestVars, notCleanup>>

\* invalidate_downstream_caches(cache_manager, tickers=affected_tickers) and
\* the return; some delete calls may raise inside CacheManager
CleanupInvalidate ==
    /\ kpc = "invalidate"
    /\ \E failed \in {{}} \cup (IF cm = "redis"
                                THEN FailureSets(InvalidationCalls(affected_tickers))
                                ELSE {}) :
          /\ cache' = CacheAfter(InvalidationCalls(affected_tickers), failed)
          /\ cache_failed' = cache_failed \cup failed
    /\ cleanup' = [kind |-> "returned", deleted |-> Cardinality(ids_to_delete),
                   cutoff |-> cutoff, tickers |-> affected_tickers]
    /\ kpc' = "returned"
    /\ UNCHANGED <<utcnow, max_age_hours, setting_hours, stored, stored_before,
                   expired_rows, notCleanup>>
    /\ UNCHANGED <<cm, enabled, configured, plan, payload, ipc, targets, wpc,
                   lock_acquired, fetched, new_instances, duplicate_count,
                   outcome, semaphore, redisLocks, lock_owner, db, overall,
                   results>>

CleanupStart ==
    /\ kpc = "select"
    /\ utcnow \in CleanupClocks
    /\ max_age_hours \in RetentionArgs
    /\ setting_hours \in RetentionSettings
    /\ stored \in StoredTables
    /\ stored_before = stored
    /\ expired_rows = {}
    /\ cleanup = [kind |-> "running"]

CleanupStep ==
    \/ CleanupSelect
    \/ CleanupDelete
    \/ CleanupDeleteFails
    \/ CleanupInvalidate

\* the cache manager the call is given or resolves; no ingest call runs
CleanupInputs ==
    /\ cm \in {"none", "noredis", "redis"}
    /\ enabled = FALSE
    /\ configured = <<>>
    /\ plan = <<>>
    /\ payload = <<>>

CleanupInit ==
    /\ CleanupStart /\ IngestStart /\ CleanupInputs /\ GateIdle /\ DedupeIdle
    /\ ScoreIdle /\ AnalyzeIdle /\ FetchIdle /\ ParseIdle /\ AggregateIdle
CleanupSpec == CleanupInit /\ [][CleanupStep]_vars

(***************************************************************************)
(* C34: when cleanup_expired_records has returned, no row of the headlines *)
(* table is older than the cutoff it returned (the current time less       *)
(* max_age_hours when that is given), every row at or after the cutoff is  *)
(* still stored as it was, the returned deleted count is the number of     *)
(* rows removed, and for every ticker of a removed row the cache entries   *)
(* are gone unless the call deleting them raised in the cache.             *)
(***************************************************************************)
Removed == stored_before \ stored

C34_CleanupPostcondition ==
    kpc = "returned" =>
        /\ max_age_hours > 0 => cleanup.cutoff = utcnow - max_age_hours
        /\ \A row \in stored : row.headline_timestamp >= cleanup.cutoff
        /\ \A row \in stored_before :
              row.headline_timestamp >= cleanup.cutoff => row \in stored
        /\ stored \subseteq stored_before
        /\ cleanup.deleted = Cardinality(Removed)
        /\ cm = "redis" =>
              \A row \in Removed :
                  /\ \A p \in CachePrefixes :
                        \/ PatternCall(p) \in cache_failed
                        \/ [prefix |-> p, ticker |-> row.ticker] \notin cache
                  /\ \A p \in {"returns:ticker", "analytics:summary"} :
                        \/ KeyCall(p, row.ticker) \in cache_failed
                        \/ KeyCall(p, row.ticker) \notin cache

\* cleanup_expired_records(max_age_hours=2) at hour 30: the row of hour 27
\* was removed, the row of hour 28 (the cutoff) is kept, and the caches of
\* the removed row's ticker are gone
C34_Witness ==
    /\ kpc = "returned"
    /\ cm = "redis"
    /\ max_age_hours = 2
    /\ cleanup.deleted = 1
    /\ cleanup.cutoff = 28
    /\ \E row \in Removed : row.headline_timestamp = 27 /\ row.ticker = "AAPL"
    /\ \E row \in stored : row.headline_timestamp = 28
    /\ \A k \in cache : k.ticker # "AAPL"

(***************************************************************************)
(* C35: the lock release of a pass never removes a lock key that another   *)
(* pass set and still holds: a pass that leaves its fetch while the key of *)
(* its source belongs to a different pass leaves that key and its owner    *)
(* in place.                                                               *)
(***************************************************************************)
ReleaseKeepsOthersLock(w) ==
    (/\ wpc[w] = "fetching"
     /\ w \in DOMAIN wpc'
     /\ wpc'[w] # "fetching"
     /\ lock_owner[targets[w]] \notin {NoOwner, PassId(w)})
        => /\ targets[w] \in redisLocks'
           /\ lock_owner'[targets[w]] = lock_owner[targets[w]]

NonDecreasing(cs) == \A i \in 1..(Len(cs) - 1) : cs[i] <= cs[i + 1]

IsSuffix(a, b) ==
    /\ Len(a) <= Len(b)
    /\ \A i \in 1..Len(a) : a[i] = b[Len(b) - Len(a) + i]

\* pruning leaves a suffix of the history; anything else has appended
AppendsOnlyOnReturn ==
    ~IsSuffix(calls', calls) =>
        \E c \in Callers :
            /\ pc[c] = "lock" /\ pc'[c] = "done"
            /\ gateLock' = 0
            /\ Len(calls') > 0
            /\ calls'[Len(calls')] = now
            /\ IsSuffix(SubSeq(calls', 1, Len(calls') - 1), calls)
            /\ completions' = Append(completions, now)

C36_HistoryBounded ==
    /\ [](Len(calls) <= RateLimit /\ NonDecreasing(calls))
    /\ [][AppendsOnlyOnReturn]_vars

\* the history is full, its oldest entry was recorded after time 0 (older
\* entries were pruned) and its entries were recorded at different times
C36_Witness ==
    /\ Len(calls) = RateLimit
    /\ calls[1] > 0
    /\ calls[Len(calls)] > calls[1]
    /\ \E c \in Callers : pc[c] = "done"

(***************************************************************************)
(* C37: with a cache manager configured, a pass whose lock attempt is not  *)
(* made (the manager has no redis) or raises ends its lock step with the   *)
(* result "skipped", reason "lock_not_acquired", and neither fetches nor   *)
(* persists; a pass fetches without having the lock only when no cache     *)
(* manager is configured, and then it always goes on to the fetch.         *)
(***************************************************************************)
LockStepOutcome(w) ==
    (wpc[w] = "lock" /\ w \in DOMAIN wpc' /\ wpc'[w] # "lock") =>
        /\ (cm # "none" /\ ~lock_acquired'[w]) =>
              /\ wpc'[w] = "finished"
              /\ outcome'[w].kind = "returned"
              /\ outcome'[w].result.status = "skipped"
              /\ outcome'[w].result.reason = "lock_not_acquired"
              /\ ~fetched'[w]
        /\ cm = "none" => (wpc'[w] = "fetching" /\ ~lock_acquired'[w])
        /\ cm = "noredis" => ~lock_acquired'[w]

SkippedPass(w) ==
    /\ outcome[w].kind = "returned"
    /\ outcome[w].result.status = "skipped"

SkippedDoesNothing ==
    \A w \in Workers :
        /\ SkippedPass(w) =>
              /\ ~fetched[w]
              /\ new_instances[w] = <<>>
              /\ outcome[w].result.persisted = 0
              /\ \A row \in db : row.id[2] # w
        /\ (fetched[w] /\ ~lock_acquired[w]) => cm = "none"

VotesOfHeadline(h) == {v \in sentiment_analyses : v.headline_id = h}

=============================================================================
